---- MODULE Spec2Model ----
(***************************************************************************)
(* A model of cJSON 1.7.19 (src/cJSON-1.7.19/cJSON-1.7.19/cJSON.c): the    *)
(* node heap with its sibling lists and ownership flags, the mutation      *)
(* surface, the recursive-descent parser and the serializer.               *)
(*                                                                         *)
(* Pointers are addresses into two heaps (nodes and strings); NULL is 0.   *)
(* Node addresses are never reused, so a dangling node pointer stays       *)
(* recognisable; a freed string block is handed out again by the next      *)
(* allocation.  Bytes are naturals 0..255, texts are sequences of bytes.   *)
(***************************************************************************)
EXTENDS Integers, Sequences, FiniteSets, TLC

VARIABLES heap, last, json, global_error

vars == <<heap, last, json, global_error>>

---------------------------------------------------------------------------
(* Bounds of the model *)

\* nodes a client may create in the tree specifications
MaxNodes == 4
\* calls a client of the list functions makes after it has built its nodes
MaxListCalls == 3
\* calls a client that builds and destroys trees makes
MaxTreeCalls == 4
\* nesting limit used by the parser model (CJSON_NESTING_LIMIT scaled down)
CJSON_NESTING_LIMIT == 2
\* bytes a client may append to the empty input buffer
MaxLen == 3

---------------------------------------------------------------------------
(* Bytes *)

Ch == [nul |-> 0, bs |-> 8, tab |-> 9, lf |-> 10, ff |-> 12, cr |-> 13,
       sp |-> 32, quote |-> 34, star |-> 42, plus |-> 43, comma |-> 44, minus |-> 45,
       dot |-> 46, slash |-> 47, zero |-> 48, nine |-> 57, colon |-> 58,
       A |-> 65, B |-> 66, C |-> 67, D |-> 68, E |-> 69, F |-> 70, K |-> 75,
       Z |-> 90, lbracket |-> 91,
       backslash |-> 92, rbracket |-> 93, a |-> 97, b |-> 98, c |-> 99,
       d |-> 100, e |-> 101, f |-> 102, g |-> 103, k |-> 107, l |-> 108,
       n |-> 110, q |-> 113, r |-> 114, s |-> 115,
       t |-> 116, u |-> 117, v |-> 118, x |-> 120, z |-> 122,
       lbrace |-> 123, rbrace |-> 125]

NULL == 0

---------------------------------------------------------------------------
(* The node type.  type is kept as its three orthogonal parts: the kind    *)
(* (type & 0xFF) and the two flag bits.                                    *)

cJSON_Invalid == "Invalid"
cJSON_False == "False"
cJSON_True == "True"
cJSON_NULL == "NULL"
cJSON_Number == "Number"
cJSON_String == "String"
cJSON_Array == "Array"
cJSON_Object == "Object"
cJSON_Raw == "Raw"

TypeOf(kind) == [kind |-> kind, IsReference |-> FALSE, StringIsConst |-> FALSE]

\* written so that no intermediate value leaves the 32-bit range
INT_MAX == (2^30 - 1) + 2^30
INT_MIN == (-(2^30)) - 2^30

(* A double is a decimal m * 10^e kept in canonical form (m carries no      *)
(* trailing zero, and zero is 0 * 10^0), or one of the two infinities.      *)
(* A decimal of at most DBL_DIG digits is the double nearest to it and     *)
(* prints back as itself, so short literals are represented exactly.       *)

RECURSIVE Canonical(_, _)
Canonical(m, e) ==
    IF m = 0 THEN [cls |-> "finite", m |-> 0, e |-> 0]
    ELSE IF m % 10 = 0 THEN Canonical(m \div 10, e + 1)
    ELSE [cls |-> "finite", m |-> m, e |-> e]

Infinity == [cls |-> "inf", m |-> 1, e |-> 0]
NegInfinity == [cls |-> "inf", m |-> -1, e |-> 0]
Zero == Canonical(0, 0)
IsFinite(d) == d.cls = "finite"

Max(a, b) == IF a > b THEN a ELSE b

\* n copies of a text
RECURSIVE Repeat(_, _)
Repeat(text, n) == IF n <= 0 THEN <<>> ELSE text \o Repeat(text, n - 1)

Abs(i) == IF i < 0 THEN -i ELSE i

RECURSIVE Pow10(_)
Pow10(n) == IF n = 0 THEN 1 ELSE 10 * Pow10(n - 1)

\* the number of decimal digits of a positive integer
RECURSIVE Digits(_)
Digits(i) == IF i < 10 THEN 1 ELSE 1 + Digits(i \div 10)

\* floor(log10(|d|)) of a finite double other than zero
Exponent10(d) == d.e + Digits(Abs(d.m)) - 1

\* (int)number: the integer part, truncated towards zero, for |number| < 2^31
Truncate(d) ==
    IF d.e >= 0 THEN d.m * Pow10(d.e)
    ELSE IF -d.e >= Digits(Abs(d.m)) THEN 0
    ELSE IF d.m < 0 THEN -((-d.m) \div Pow10(-d.e))
    ELSE d.m \div Pow10(-d.e)

\* the saturated integer mirror of a double: INT_MAX and INT_MIN beyond the
\* range of int, the truncated value inside it
SaturateInt(number) ==
    IF number.cls = "inf" THEN (IF number.m > 0 THEN INT_MAX ELSE INT_MIN)
    ELSE IF number.m = 0 THEN 0
    ELSE IF Exponent10(number) >= 10 THEN (IF number.m > 0 THEN INT_MAX ELSE INT_MIN)
    ELSE IF Exponent10(number) < 9 \/ number.e <= 0 THEN Truncate(number)
    \* ten digits, the last of them a zero: decide on the leading nine
    ELSE LET lead == Truncate([number EXCEPT !.e = @ - 1])
         IN IF lead > INT_MAX \div 10 THEN INT_MAX
            ELSE IF lead < -(INT_MAX \div 10) THEN INT_MIN
            ELSE lead * 10

\* memset(node, '\0', sizeof(cJSON))
ZeroNode == [next |-> NULL, prev |-> NULL, child |-> NULL,
             type |-> TypeOf(cJSON_Invalid), valuestring |-> NULL,
             valueint |-> 0, valuedouble |-> Zero, string |-> NULL]

---------------------------------------------------------------------------
(* The allocator.  heap.fuel counts the allocations left before one fails  *)
(* (0: none fails).  heap.fault records a free of a block that is not live *)
(* (a double free, or a free of memory the allocator never returned).      *)
(* heap.origin is a ghost: the pairs <<reference, original>> made by       *)
(* create_reference.                                                       *)

EmptyHeap == [nodes |-> <<>>, strs |-> <<>>, liveN |-> {}, liveS |-> {},
              freeS |-> {}, fault |-> FALSE, fuel |-> 0, origin |-> {}]

\* one call of hooks->allocate: does this one fail, and the heap after it
AllocFails(h) == h.fuel = 1
AfterAlloc(h) == [h EXCEPT !.fuel = IF @ > 0 THEN @ - 1 ELSE 0]

\* a string block of the given content (without its terminating nul)
AllocString(h, bytes) ==
    IF AllocFails(h) THEN [h |-> AfterAlloc(h), p |-> NULL]
    ELSE LET p == IF h.freeS = {} THEN Len(h.strs) + 1
                  ELSE CHOOSE q \in h.freeS : \A o \in h.freeS : q <= o
         IN [h |-> [AfterAlloc(h) EXCEPT
                      !.strs = IF p > Len(@) THEN Append(@, bytes)
                               ELSE [@ EXCEPT ![p] = bytes],
                      !.liveS = @ \cup {p},
                      !.freeS = @ \ {p}],
             p |-> p]

\* memory of the caller (a literal, a static buffer): readable, not to be freed
StaticString(h, bytes) ==
    [h |-> [h EXCEPT !.strs = Append(@, bytes)], p |-> Len(h.strs) + 1]

\* hooks->deallocate.  The content of a freed block is lost.
deallocateS(h, p) ==
    IF p \in h.liveS
    THEN [h EXCEPT !.liveS = @ \ {p}, !.freeS = @ \cup {p}, !.strs[p] = <<>>]
    ELSE [h EXCEPT !.fault = TRUE]

deallocateN(h, p) ==
    IF p \in h.liveN
    THEN [h EXCEPT !.liveN = @ \ {p}, !.nodes[p] = ZeroNode]
    ELSE [h EXCEPT !.fault = TRUE]

cJSON_strdup(h, string) ==
    IF string = NULL THEN [h |-> h, p |-> NULL]
    ELSE AllocString(h, h.strs[string])

cJSON_New_Item(h) ==
    IF AllocFails(h) THEN [h |-> AfterAlloc(h), p |-> NULL]
    ELSE LET p == Len(h.nodes) + 1
         IN [h |-> [AfterAlloc(h) EXCEPT !.nodes = Append(@, ZeroNode),
                                         !.liveN = @ \cup {p}],
             p |-> p]

---------------------------------------------------------------------------
(* cJSON_Delete.  The sibling walk is a loop and the descent a recursion;  *)
(* a node that is reached again after it was freed is a fault.             *)

\* cJSON_Delete without its two tests of cJSON_IsReference
RECURSIVE cJSON_Delete_through_references(_, _)
cJSON_Delete_through_references(h, item) ==
    IF item = NULL THEN h
    ELSE IF item \notin h.liveN THEN [h EXCEPT !.fault = TRUE]
    ELSE
      LET next == h.nodes[item].next
          h1 == IF h.nodes[item].child # NULL
                THEN cJSON_Delete_through_references(h, h.nodes[item].child) ELSE h
          h2 == IF h1.nodes[item].valuestring # NULL
                THEN [deallocateS(h1, h1.nodes[item].valuestring)
                        EXCEPT !.nodes[item].valuestring = NULL]
                ELSE h1
          h3 == IF ~h2.nodes[item].type.StringIsConst /\ h2.nodes[item].string # NULL
                THEN [deallocateS(h2, h2.nodes[item].string)
                        EXCEPT !.nodes[item].string = NULL]
                ELSE h2
          h4 == deallocateN(h3, item)
      IN cJSON_Delete_through_references(h4, next)

RECURSIVE cJSON_Delete(_, _)
cJSON_Delete(h, item) ==
    IF item = NULL THEN h
    ELSE IF item \notin h.liveN THEN [h EXCEPT !.fault = TRUE]
    ELSE
      LET next == h.nodes[item].next
          h1 == IF ~h.nodes[item].type.IsReference /\ h.nodes[item].child # NULL
                THEN cJSON_Delete(h, h.nodes[item].child) ELSE h
          h2 == IF ~h1.nodes[item].type.IsReference /\ h1.nodes[item].valuestring # NULL
                THEN [deallocateS(h1, h1.nodes[item].valuestring)
                        EXCEPT !.nodes[item].valuestring = NULL]
                ELSE h1
          h3 == IF ~h2.nodes[item].type.StringIsConst /\ h2.nodes[item].string # NULL
                THEN [deallocateS(h2, h2.nodes[item].string)
                        EXCEPT !.nodes[item].string = NULL]
                ELSE h2
          h4 == deallocateN(h3, item)
      IN cJSON_Delete(h4, next)

---------------------------------------------------------------------------
(* Lookup *)

\* get_array_item: walk index links from the first child
RECURSIVE WalkIndex(_, _, _)
WalkIndex(h, current_child, index) ==
    IF current_child # NULL /\ index > 0
    THEN WalkIndex(h, h.nodes[current_child].next, index - 1)
    ELSE current_child

get_array_item(h, array, index) ==
    IF array = NULL THEN NULL ELSE WalkIndex(h, h.nodes[array].child, index)

tolower(c) == IF c >= Ch.A /\ c <= Ch.Z THEN c + 32 ELSE c

\* strcmp(a, b) == 0 on two texts
StrEq(s1, s2) == s1 = s2

\* case_insensitive_strcmp(string1, string2) == 0 on two pointers
case_insensitive_equal(h, string1, string2) ==
    IF string1 = NULL \/ string2 = NULL THEN FALSE
    ELSE IF string1 = string2 THEN TRUE
    ELSE LET s1 == h.strs[string1]
             s2 == h.strs[string2]
         IN /\ Len(s1) = Len(s2)
            /\ \A i \in 1..Len(s1) : tolower(s1[i]) = tolower(s2[i])

RECURSIVE FindSensitive(_, _, _)
FindSensitive(h, current_element, name) ==
    IF /\ current_element # NULL
       /\ h.nodes[current_element].string # NULL
       /\ ~StrEq(h.strs[name], h.strs[h.nodes[current_element].string])
    THEN FindSensitive(h, h.nodes[current_element].next, name)
    ELSE current_element

RECURSIVE FindInsensitive(_, _, _)
FindInsensitive(h, current_element, name) ==
    IF /\ current_element # NULL
       /\ ~case_insensitive_equal(h, name, h.nodes[current_element].string)
    THEN FindInsensitive(h, h.nodes[current_element].next, name)
    ELSE current_element

get_object_item(h, object, name, case_sensitive) ==
    IF object = NULL \/ name = NULL THEN NULL
    ELSE LET current_element ==
                 IF case_sensitive
                 THEN FindSensitive(h, h.nodes[object].child, name)
                 ELSE FindInsensitive(h, h.nodes[object].child, name)
         IN IF current_element = NULL \/ h.nodes[current_element].string = NULL
            THEN NULL
            ELSE current_element

cJSON_GetObjectItem(h, object, string) == get_object_item(h, object, string, FALSE)

cJSON_GetObjectItemCaseSensitive(h, object, string) ==
    get_object_item(h, object, string, TRUE)

---------------------------------------------------------------------------
(* Attaching.  Every operation returns the heap after it and its result.   *)

\* suffix_object without its second assignment
suffix_object_next_only(h, prev, item) ==
    [h EXCEPT !.nodes[prev].next = item]

suffix_object(h, prev, item) ==
    [h EXCEPT !.nodes[prev].next = item, !.nodes[item].prev = prev]

add_item_to_array(h, array, item) ==
    IF item = NULL \/ array = NULL \/ array = item THEN [h |-> h, ret |-> FALSE]
    ELSE LET child == h.nodes[array].child
         IN IF child = NULL
            THEN [h |-> [h EXCEPT !.nodes[array].child = item,
                                  !.nodes[item].prev = item,
                                  !.nodes[item].next = NULL],
                  ret |-> TRUE]
            ELSE IF h.nodes[child].prev # NULL
            THEN LET h1 == suffix_object(h, h.nodes[child].prev, item)
                 IN [h |-> [h1 EXCEPT !.nodes[h1.nodes[array].child].prev = item],
                     ret |-> TRUE]
            ELSE [h |-> h, ret |-> TRUE]

add_item_to_object(h, object, string, item, constant_key) ==
    IF object = NULL \/ string = NULL \/ item = NULL \/ object = item
    THEN [h |-> h, ret |-> FALSE]
    ELSE
      LET dup == IF constant_key THEN [h |-> h, p |-> string] ELSE cJSON_strdup(h, string)
          new_key == dup.p
          new_type == [h.nodes[item].type EXCEPT !.StringIsConst = constant_key]
      IN IF new_key = NULL THEN [h |-> dup.h, ret |-> FALSE]
         ELSE
           LET h1 == IF ~dup.h.nodes[item].type.StringIsConst /\ dup.h.nodes[item].string # NULL
                     THEN deallocateS(dup.h, dup.h.nodes[item].string)
                     ELSE dup.h
               h2 == [h1 EXCEPT !.nodes[item].string = new_key,
                                !.nodes[item].type = new_type]
           IN add_item_to_array(h2, object, item)

create_reference(h, item) ==
    IF item = NULL THEN [h |-> h, p |-> NULL]
    ELSE LET r == cJSON_New_Item(h)
         IN IF r.p = NULL THEN r
            ELSE [h |-> [r.h EXCEPT !.nodes[r.p] =
                            [r.h.nodes[item] EXCEPT !.string = NULL,
                                                    !.type.IsReference = TRUE,
                                                    !.next = NULL,
                                                    !.prev = NULL],
                                    !.origin = @ \cup {<<r.p, item>>}],
                  p |-> r.p]

cJSON_AddItemReferenceToArray(h, array, item) ==
    IF array = NULL THEN [h |-> h, ret |-> FALSE]
    ELSE LET r == create_reference(h, item)
         IN add_item_to_array(r.h, array, r.p)

cJSON_AddItemReferenceToObject(h, object, string, item) ==
    IF object = NULL \/ string = NULL THEN [h |-> h, ret |-> FALSE]
    ELSE LET r == create_reference(h, item)
         IN add_item_to_object(r.h, object, string, r.p, FALSE)

---------------------------------------------------------------------------
(* Detaching, deleting, inserting, replacing *)

\* cJSON_DetachItemViaPointer that leaves the next of the sibling before
\* the item as it is
cJSON_DetachItemViaPointer_without_relink(h, parent, item) ==
    IF \/ parent = NULL
       \/ item = NULL
       \/ (item # h.nodes[parent].child /\ h.nodes[item].prev = NULL)
    THEN [h |-> h, p |-> NULL]
    ELSE
      LET h2 == IF h.nodes[item].next # NULL
                THEN [h EXCEPT !.nodes[h.nodes[item].next].prev = h.nodes[item].prev]
                ELSE h
          h3 == IF item = h2.nodes[parent].child
                THEN [h2 EXCEPT !.nodes[parent].child = h2.nodes[item].next]
                ELSE IF h2.nodes[item].next = NULL
                THEN [h2 EXCEPT !.nodes[h2.nodes[parent].child].prev = h2.nodes[item].prev]
                ELSE h2
      IN [h |-> [h3 EXCEPT !.nodes[item].prev = NULL, !.nodes[item].next = NULL],
          p |-> item]

cJSON_DetachItemViaPointer(h, parent, item) ==
    IF \/ parent = NULL
       \/ item = NULL
       \/ (item # h.nodes[parent].child /\ h.nodes[item].prev = NULL)
    THEN [h |-> h, p |-> NULL]
    ELSE
      LET h1 == IF item # h.nodes[parent].child
                THEN [h EXCEPT !.nodes[h.nodes[item].prev].next = h.nodes[item].next]
                ELSE h
          h2 == IF h1.nodes[item].next # NULL
                THEN [h1 EXCEPT !.nodes[h1.nodes[item].next].prev = h1.nodes[item].prev]
                ELSE h1
          h3 == IF item = h2.nodes[parent].child
                THEN [h2 EXCEPT !.nodes[parent].child = h2.nodes[item].next]
                ELSE IF h2.nodes[item].next = NULL
                THEN [h2 EXCEPT !.nodes[h2.nodes[parent].child].prev = h2.nodes[item].prev]
                ELSE h2
      IN [h |-> [h3 EXCEPT !.nodes[item].prev = NULL, !.nodes[item].next = NULL],
          p |-> item]

cJSON_DetachItemFromArray(h, array, which) ==
    IF which < 0 THEN [h |-> h, p |-> NULL]
    ELSE cJSON_DetachItemViaPointer(h, array, get_array_item(h, array, which))

cJSON_DetachItemFromObject(h, object, string) ==
    cJSON_DetachItemViaPointer(h, object, get_object_item(h, object, string, FALSE))

cJSON_DetachItemFromObjectCaseSensitive(h, object, string) ==
    cJSON_DetachItemViaPointer(h, object, get_object_item(h, object, string, TRUE))

\* cJSON_DeleteItemFromArray without its call of cJSON_Delete
cJSON_DeleteItemFromArray_detach_only(h, array, which) ==
    cJSON_DetachItemFromArray(h, array, which).h

cJSON_DeleteItemFromArray(h, array, which) ==
    LET d == cJSON_DetachItemFromArray(h, array, which)
    IN cJSON_Delete(d.h, d.p)

cJSON_DeleteItemFromObject(h, object, string) ==
    LET d == cJSON_DetachItemFromObject(h, object, string)
    IN cJSON_Delete(d.h, d.p)

cJSON_DeleteItemFromObjectCaseSensitive(h, object, string) ==
    LET d == cJSON_DetachItemFromObjectCaseSensitive(h, object, string)
    IN cJSON_Delete(d.h, d.p)

\* cJSON_InsertItemInArray that links the new item behind the sibling before
\* it whether there is one or not, and leaves array->child alone
cJSON_InsertItemInArray_without_head(h, array, which, newitem) ==
    IF which < 0 \/ newitem = NULL THEN [h |-> h, ret |-> FALSE]
    ELSE
      LET after_inserted == get_array_item(h, array, which)
      IN IF after_inserted = NULL THEN add_item_to_array(h, array, newitem)
         ELSE IF after_inserted # h.nodes[array].child /\ h.nodes[after_inserted].prev = NULL
         THEN [h |-> h, ret |-> FALSE]
         ELSE
           LET h1 == [h EXCEPT !.nodes[newitem].next = after_inserted,
                               !.nodes[newitem].prev = h.nodes[after_inserted].prev,
                               !.nodes[after_inserted].prev = newitem]
           IN [h |-> [h1 EXCEPT !.nodes[h1.nodes[newitem].prev].next = newitem],
               ret |-> TRUE]

cJSON_InsertItemInArray(h, array, which, newitem) ==
    IF which < 0 \/ newitem = NULL THEN [h |-> h, ret |-> FALSE]
    ELSE
      LET after_inserted == get_array_item(h, array, which)
      IN IF after_inserted = NULL THEN add_item_to_array(h, array, newitem)
         ELSE IF after_inserted # h.nodes[array].child /\ h.nodes[after_inserted].prev = NULL
         THEN [h |-> h, ret |-> FALSE]
         ELSE
           LET h1 == [h EXCEPT !.nodes[newitem].next = after_inserted,
                               !.nodes[newitem].prev = h.nodes[after_inserted].prev,
                               !.nodes[after_inserted].prev = newitem]
           IN IF after_inserted = h1.nodes[array].child
              THEN [h |-> [h1 EXCEPT !.nodes[array].child = newitem], ret |-> TRUE]
              ELSE [h |-> [h1 EXCEPT !.nodes[h1.nodes[newitem].prev].next = newitem],
                    ret |-> TRUE]

\* cJSON_ReplaceItemViaPointer without its call of cJSON_Delete
cJSON_ReplaceItemViaPointer_keeping_item(h, parent, item, replacement) ==
    IF \/ parent = NULL
       \/ h.nodes[parent].child = NULL
       \/ replacement = NULL
       \/ item = NULL
    THEN [h |-> h, ret |-> FALSE]
    ELSE IF replacement = item THEN [h |-> h, ret |-> TRUE]
    ELSE
      LET h1 == [h EXCEPT !.nodes[replacement].next = h.nodes[item].next,
                          !.nodes[replacement].prev = h.nodes[item].prev]
          h2 == IF h1.nodes[replacement].next # NULL
                THEN [h1 EXCEPT !.nodes[h1.nodes[replacement].next].prev = replacement]
                ELSE h1
          h3 == IF h2.nodes[parent].child = item
                THEN LET h2a == IF h2.nodes[h2.nodes[parent].child].prev = h2.nodes[parent].child
                                THEN [h2 EXCEPT !.nodes[replacement].prev = replacement]
                                ELSE h2
                     IN [h2a EXCEPT !.nodes[parent].child = replacement]
                ELSE LET h2b == IF h2.nodes[replacement].prev # NULL
                                THEN [h2 EXCEPT !.nodes[h2.nodes[replacement].prev].next = replacement]
                                ELSE h2
                     IN IF h2b.nodes[replacement].next = NULL
                        THEN [h2b EXCEPT !.nodes[h2b.nodes[parent].child].prev = replacement]
                        ELSE h2b
          h4 == [h3 EXCEPT !.nodes[item].next = NULL, !.nodes[item].prev = NULL]
      IN [h |-> h4, ret |-> TRUE]

cJSON_ReplaceItemViaPointer(h, parent, item, replacement) ==
    IF \/ parent = NULL
       \/ h.nodes[parent].child = NULL
       \/ replacement = NULL
       \/ item = NULL
    THEN [h |-> h, ret |-> FALSE]
    ELSE IF replacement = item THEN [h |-> h, ret |-> TRUE]
    ELSE
      LET h1 == [h EXCEPT !.nodes[replacement].next = h.nodes[item].next,
                          !.nodes[replacement].prev = h.nodes[item].prev]
          h2 == IF h1.nodes[replacement].next # NULL
                THEN [h1 EXCEPT !.nodes[h1.nodes[replacement].next].prev = replacement]
                ELSE h1
          h3 == IF h2.nodes[parent].child = item
                THEN LET h2a == IF h2.nodes[h2.nodes[parent].child].prev = h2.nodes[parent].child
                                THEN [h2 EXCEPT !.nodes[replacement].prev = replacement]
                                ELSE h2
                     IN [h2a EXCEPT !.nodes[parent].child = replacement]
                ELSE LET h2b == IF h2.nodes[replacement].prev # NULL
                                THEN [h2 EXCEPT !.nodes[h2.nodes[replacement].prev].next = replacement]
                                ELSE h2
                     IN IF h2b.nodes[replacement].next = NULL
                        THEN [h2b EXCEPT !.nodes[h2b.nodes[parent].child].prev = replacement]
                        ELSE h2b
          h4 == [h3 EXCEPT !.nodes[item].next = NULL, !.nodes[item].prev = NULL]
      IN [h |-> cJSON_Delete(h4, item), ret |-> TRUE]

cJSON_ReplaceItemInArray(h, array, which, newitem) ==
    IF which < 0 THEN [h |-> h, ret |-> FALSE]
    ELSE cJSON_ReplaceItemViaPointer(h, array, get_array_item(h, array, which), newitem)

replace_item_in_object(h, object, string, replacement, case_sensitive) ==
    IF replacement = NULL \/ string = NULL THEN [h |-> h, ret |-> FALSE]
    ELSE
      LET h1 == IF ~h.nodes[replacement].type.StringIsConst /\ h.nodes[replacement].string # NULL
                THEN deallocateS(h, h.nodes[replacement].string)
                ELSE h
          dup == cJSON_strdup(h1, string)
          h2 == [dup.h EXCEPT !.nodes[replacement].string = dup.p]
      IN IF dup.p = NULL THEN [h |-> h2, ret |-> FALSE]
         ELSE LET h3 == [h2 EXCEPT !.nodes[replacement].type.StringIsConst = FALSE]
              IN cJSON_ReplaceItemViaPointer(h3, object,
                     get_object_item(h3, object, string, case_sensitive), replacement)

---------------------------------------------------------------------------
(* Factories *)

\* the factories whose node carries nothing but its kind
CreateOfKind(h, kind) ==
    LET r == cJSON_New_Item(h)
    IN IF r.p = NULL THEN r
       ELSE [h |-> [r.h EXCEPT !.nodes[r.p].type = TypeOf(kind)], p |-> r.p]

cJSON_CreateNull(h) == CreateOfKind(h, cJSON_NULL)
cJSON_CreateTrue(h) == CreateOfKind(h, cJSON_True)
cJSON_CreateFalse(h) == CreateOfKind(h, cJSON_False)
cJSON_CreateBool(h, boolean) == CreateOfKind(h, IF boolean THEN cJSON_True ELSE cJSON_False)
cJSON_CreateArray(h) == CreateOfKind(h, cJSON_Array)
cJSON_CreateObject(h) == CreateOfKind(h, cJSON_Object)

cJSON_CreateNumber(h, num) ==
    LET r == cJSON_New_Item(h)
    IN IF r.p = NULL THEN r
       ELSE [h |-> [r.h EXCEPT !.nodes[r.p].type = TypeOf(cJSON_Number),
                               !.nodes[r.p].valuedouble = num,
                               !.nodes[r.p].valueint = SaturateInt(num)],
             p |-> r.p]

\* cJSON_CreateString and cJSON_CreateRaw differ in the kind only
CreateWithPayload(h, kind, string) ==
    LET r == cJSON_New_Item(h)
    IN IF r.p = NULL THEN r
       ELSE LET dup == cJSON_strdup(r.h, string)
                h1 == [dup.h EXCEPT !.nodes[r.p].type = TypeOf(kind),
                                    !.nodes[r.p].valuestring = dup.p]
            IN IF dup.p = NULL THEN [h |-> cJSON_Delete(h1, r.p), p |-> NULL]
               ELSE [h |-> h1, p |-> r.p]

cJSON_CreateString(h, string) == CreateWithPayload(h, cJSON_String, string)
cJSON_CreateRaw(h, raw) == CreateWithPayload(h, cJSON_Raw, raw)

cJSON_CreateStringReference(h, string) ==
    LET r == cJSON_New_Item(h)
    IN IF r.p = NULL THEN r
       ELSE [h |-> [r.h EXCEPT !.nodes[r.p].type =
                        [TypeOf(cJSON_String) EXCEPT !.IsReference = TRUE],
                               !.nodes[r.p].valuestring = string],
             p |-> r.p]

\* cJSON_CreateObjectReference and cJSON_CreateArrayReference
CreateContainerReference(h, kind, child) ==
    LET r == cJSON_New_Item(h)
    IN IF r.p = NULL THEN r
       ELSE [h |-> [r.h EXCEPT !.nodes[r.p].type =
                        [TypeOf(kind) EXCEPT !.IsReference = TRUE],
                               !.nodes[r.p].child = child],
             p |-> r.p]

cJSON_CreateObjectReference(h, child) == CreateContainerReference(h, cJSON_Object, child)
cJSON_CreateArrayReference(h, child) == CreateContainerReference(h, cJSON_Array, child)

---------------------------------------------------------------------------
(* The parser.  A parse_buffer carries the memory of the caller (content), *)
(* the length the caller gave, the cursor and the nesting depth; hooks is  *)
(* the heap its allocations go to.  oob is a ghost: a byte at an index     *)
(* that is not below length has been read.                                 *)

\* the byte of the caller's memory at an index counted from 0; what lies
\* past that memory is unknown, 0 stands for it
ByteAt(content, index) ==
    IF index >= 0 /\ index < Len(content) THEN content[index + 1] ELSE Ch.nul

can_read(buffer, size) == buffer.offset + size <= buffer.length
\* can_access_at_index with the end of the buffer taken for a place in it
can_access_at_index_inclusive(buffer, index) == buffer.offset + index <= buffer.length
can_access_at_index(buffer, index) == buffer.offset + index < buffer.length
cannot_access_at_index(buffer, index) == ~can_access_at_index(buffer, index)
buffer_at_offset(buffer, index) == ByteAt(buffer.content, buffer.offset + index)

\* the ghost of a read at an index of the memory
ReadAt(buffer, index) == [buffer EXCEPT !.oob = @ \/ index >= buffer.length]
\* the ghost of buffer_at_offset(buffer)[index]
Read(buffer, index) == ReadAt(buffer, buffer.offset + index)
\* the ghost of can_access_at_index(buffer, index) && buffer_at_offset(buffer)[index] ...
Guarded(buffer, index) ==
    IF can_access_at_index(buffer, index) THEN Read(buffer, index) ELSE buffer

Advance(buffer, size) == [buffer EXCEPT !.offset = @ + size]

\* strncmp(buffer_at_offset(buffer), literal, n) == 0, and the number of
\* bytes strncmp looks at: it stops behind the first difference
strncmp_equal(buffer, literal) ==
    \A i \in 1..Len(literal) : buffer_at_offset(buffer, i - 1) = literal[i]

RECURSIVE strncmp_compared(_, _, _)
strncmp_compared(buffer, literal, i) ==
    IF i >= Len(literal) THEN i
    ELSE IF buffer_at_offset(buffer, i) # literal[i + 1] THEN i + 1
    ELSE strncmp_compared(buffer, literal, i + 1)

strncmp_read(buffer, literal) ==
    Read(buffer, strncmp_compared(buffer, literal, 0) - 1)

\* buffer_skip_whitespace: bytes up to 32 are skipped, the nul byte among
\* them; a cursor that reaches the end is put back on the last byte
RECURSIVE skip_whitespace_loop(_)
skip_whitespace_loop(buffer) ==
    IF can_access_at_index(buffer, 0) /\ buffer_at_offset(buffer, 0) <= Ch.sp
    THEN skip_whitespace_loop(Advance(Read(buffer, 0), 1))
    ELSE Guarded(buffer, 0)

\* buffer_skip_whitespace without the step back from the end of the buffer
buffer_skip_whitespace_to_end(buffer) ==
    IF cannot_access_at_index(buffer, 0) THEN buffer ELSE skip_whitespace_loop(buffer)

buffer_skip_whitespace(buffer) ==
    IF cannot_access_at_index(buffer, 0) THEN buffer
    ELSE LET skipped == skip_whitespace_loop(buffer)
         IN IF skipped.offset = skipped.length THEN Advance(skipped, -1)
            ELSE skipped

UTF8_BOM == <<239, 187, 191>>

skip_utf8_bom(buffer) ==
    IF can_access_at_index(buffer, 4)
    THEN (IF strncmp_equal(buffer, UTF8_BOM)
          THEN Advance(strncmp_read(buffer, UTF8_BOM), 3)
          ELSE strncmp_read(buffer, UTF8_BOM))
    ELSE buffer

(* Numbers.  parse_number copies the bytes that may belong to a number     *)
(* into a scratch block and hands it to strtod.                            *)

IsDigit(c) == c >= Ch.zero /\ c <= Ch.nine

IsNumberByte(c) == IsDigit(c) \/ c \in {Ch.plus, Ch.minus, Ch.e, Ch.E, Ch.dot}

\* the digits of a text from a position (counted from 1) on
RECURSIVE DigitRun(_, _)
DigitRun(s, i) == IF i <= Len(s) /\ IsDigit(s[i]) THEN 1 + DigitRun(s, i + 1) ELSE 0

\* the value of the n digits of a text that start at a position
RECURSIVE DigitsValue(_, _, _)
DigitsValue(s, i, n) ==
    IF n = 0 THEN 0 ELSE DigitsValue(s, i, n - 1) * 10 + (s[i + n - 1] - Ch.zero)

\* the zeros a digit text ends with
RECURSIVE TrailingZeros(_)
TrailingZeros(digits) ==
    IF digits # <<>> /\ digits[Len(digits)] = Ch.zero
    THEN 1 + TrailingZeros(SubSeq(digits, 1, Len(digits) - 1))
    ELSE 0

\* the largest decimal exponent of a finite double, and the smallest of a
\* double that is not zero (<float.h>)
DBL_MAX_10_EXP == 308
DBL_TRUE_MIN_10_EXP == -323

\* a decimal as the double strtod gives for it: HUGE_VAL beyond the range of
\* double, zero below it
strtod_range(exact) ==
    IF exact.m = 0 THEN Zero
    ELSE IF Exponent10(exact) > DBL_MAX_10_EXP
    THEN (IF exact.m < 0 THEN NegInfinity ELSE Infinity)
    ELSE IF Exponent10(exact) < DBL_TRUE_MIN_10_EXP THEN Zero
    ELSE exact

\* strtod in the C locale on a text of sign, digit, point and exponent
\* bytes: the number of bytes converted (0: no conversion) and the value.
\* The exponent part is taken only with a digit in it.
strtod(s) ==
    LET negative == Len(s) >= 1 /\ s[1] = Ch.minus
        first == IF Len(s) >= 1 /\ s[1] \in {Ch.plus, Ch.minus} THEN 2 ELSE 1
        IsAt(i, bytes) == i <= Len(s) /\ s[i] \in bytes
        \* the exponent part behind the mantissa: where its digits start, how
        \* many they are, and its sign
        Power(mantissa_end) ==
            IF IsAt(mantissa_end, {Ch.e, Ch.E})
            THEN (IF IsAt(mantissa_end + 1, {Ch.plus, Ch.minus})
                  THEN [first |-> mantissa_end + 2,
                        digits |-> DigitRun(s, mantissa_end + 2),
                        negative |-> s[mantissa_end + 1] = Ch.minus]
                  ELSE [first |-> mantissa_end + 1,
                        digits |-> DigitRun(s, mantissa_end + 1),
                        negative |-> FALSE])
            ELSE [first |-> mantissa_end, digits |-> 0, negative |-> FALSE]
        \* the value of the digits of the mantissa, the zeros that end them
        \* set aside, times ten to the exponent
        Significant(digits, zeros, exponent) ==
            strtod_range(Canonical(
                (IF negative THEN -1 ELSE 1)
                  * DigitsValue(digits, 1, Len(digits) - zeros),
                exponent + zeros))
        Valued(digits, exponent) ==
            Significant(digits, TrailingZeros(digits), exponent)
        Converted(whole, fraction, mantissa_end, power) ==
            IF whole + fraction = 0 THEN [after_end |-> 0, number |-> Zero]
            ELSE [after_end |-> (IF power.digits > 0 THEN power.first + power.digits
                                 ELSE mantissa_end) - 1,
                  number |-> Valued(
                      SubSeq(s, first, first + whole - 1)
                        \o SubSeq(s, first + whole + 1, first + whole + fraction),
                      (IF power.negative THEN -1 ELSE 1)
                        * DigitsValue(s, power.first, power.digits) - fraction)]
        WithMantissa(whole, fraction, mantissa_end) ==
            Converted(whole, fraction, mantissa_end, Power(mantissa_end))
        WithFraction(whole, point, fraction) ==
            WithMantissa(whole, fraction,
                         first + whole + (IF point THEN 1 + fraction ELSE 0))
        WithPoint(whole, point) ==
            WithFraction(whole, point,
                         IF point THEN DigitRun(s, first + whole + 1) ELSE 0)
        WithWhole(whole) == WithPoint(whole, IsAt(first + whole, {Ch.dot}))
    IN WithWhole(DigitRun(s, first))

\* the first loop of parse_number: number_string_length
RECURSIVE number_string_length(_, _)
number_string_length(input_buffer, i) ==
    IF can_access_at_index(input_buffer, i)
       /\ IsNumberByte(buffer_at_offset(input_buffer, i))
    THEN number_string_length(input_buffer, i + 1)
    ELSE i

\* the number parser that leaves the cursor where the number begins
parse_number_without_advance(item, input_buffer) ==
    LET Converted(length, copied, number_c_string, converted) ==
            IF converted.after_end = 0
            THEN [b |-> [copied EXCEPT !.hooks = deallocateS(@, number_c_string)],
                  ok |-> FALSE]
            ELSE [b |-> [copied EXCEPT
                           !.hooks = deallocateS(@, number_c_string),
                           !.hooks.nodes[item].valuedouble = converted.number,
                           !.hooks.nodes[item].valueint = SaturateInt(converted.number),
                           !.hooks.nodes[item].type = TypeOf(cJSON_Number)],
                  ok |-> TRUE]
        Allocated(length, scanned, text, allocated) ==
            IF allocated.p = NULL
            THEN [b |-> [scanned EXCEPT !.hooks = allocated.h], ok |-> FALSE]
            ELSE Converted(length,
                           \* memcpy reads the bytes once more
                           [(IF length > 0 THEN Read(scanned, length - 1) ELSE scanned)
                              EXCEPT !.hooks = allocated.h],
                           allocated.p, strtod(text))
        \* the loop has read every index up to the one it stopped at
        Scanned(length, scanned, text) ==
            Allocated(length, scanned, text, AllocString(scanned.hooks, text))
        Counted(length) ==
            Scanned(length,
                    Guarded(IF length > 0 THEN Guarded(input_buffer, length - 1)
                            ELSE input_buffer, length),
                    [i \in 1..length |-> buffer_at_offset(input_buffer, i - 1)])
    IN Counted(number_string_length(input_buffer, 0))

parse_number(item, input_buffer) ==
    LET Converted(length, copied, number_c_string, converted) ==
            IF converted.after_end = 0
            THEN [b |-> [copied EXCEPT !.hooks = deallocateS(@, number_c_string)],
                  ok |-> FALSE]
            ELSE [b |-> [Advance(copied, converted.after_end) EXCEPT
                           !.hooks = deallocateS(@, number_c_string),
                           !.hooks.nodes[item].valuedouble = converted.number,
                           !.hooks.nodes[item].valueint = SaturateInt(converted.number),
                           !.hooks.nodes[item].type = TypeOf(cJSON_Number)],
                  ok |-> TRUE]
        Allocated(length, scanned, text, allocated) ==
            IF allocated.p = NULL
            THEN [b |-> [scanned EXCEPT !.hooks = allocated.h], ok |-> FALSE]
            ELSE Converted(length,
                           \* memcpy reads the bytes once more
                           [(IF length > 0 THEN Read(scanned, length - 1) ELSE scanned)
                              EXCEPT !.hooks = allocated.h],
                           allocated.p, strtod(text))
        \* the loop has read every index up to the one it stopped at
        Scanned(length, scanned, text) ==
            Allocated(length, scanned, text, AllocString(scanned.hooks, text))
        Counted(length) ==
            Scanned(length,
                    Guarded(IF length > 0 THEN Guarded(input_buffer, length - 1)
                            ELSE input_buffer, length),
                    [i \in 1..length |-> buffer_at_offset(input_buffer, i - 1)])
    IN Counted(number_string_length(input_buffer, 0))

(* Strings *)

HexValue(c) ==
    IF IsDigit(c) THEN c - Ch.zero
    ELSE IF c >= Ch.A /\ c <= Ch.F THEN 10 + c - Ch.A
    ELSE IF c >= Ch.a /\ c <= Ch.f THEN 10 + c - Ch.a
    ELSE -1

\* parse_hex4 gives 0 for four bytes that are not all hexadecimal digits
RECURSIVE parse_hex4_from(_, _, _, _)
parse_hex4_from(content, input, i, h) ==
    IF i = 4 THEN h
    ELSE IF HexValue(ByteAt(content, input + i)) < 0 THEN 0
    ELSE LET sum == h + HexValue(ByteAt(content, input + i))
         IN parse_hex4_from(content, input, i + 1, IF i < 3 THEN sum * 16 ELSE sum)

parse_hex4(content, input) == parse_hex4_from(content, input, 0, 0)

\* the index of the last byte parse_hex4 looks at
RECURSIVE parse_hex4_last(_, _, _)
parse_hex4_last(content, input, i) ==
    IF i = 3 \/ HexValue(ByteAt(content, input + i)) < 0 THEN input + i
    ELSE parse_hex4_last(content, input, i + 1)

\* the encoding that writes the low byte of the codepoint and no more
utf8_encode_low_byte(codepoint) == <<codepoint % 256>>

\* the UTF-8 encoding of a codepoint, as utf16_literal_to_utf8 writes it
utf8_encode(codepoint) ==
    LET utf8_length == IF codepoint < 128 THEN 1
                       ELSE IF codepoint < 2048 THEN 2
                       ELSE IF codepoint < 65536 THEN 3
                       ELSE 4
        first_byte_mark == IF utf8_length = 2 THEN 192
                           ELSE IF utf8_length = 3 THEN 224
                           ELSE IF utf8_length = 4 THEN 240
                           ELSE 0
        Shifted(n) == codepoint \div (64 ^ n)
    IN [utf8_position \in 1..utf8_length |->
          IF utf8_position > 1 THEN 128 + (Shifted(utf8_length - utf8_position) % 64)
          ELSE IF utf8_length > 1 THEN (Shifted(utf8_length - 1) + first_byte_mark) % 256
          ELSE codepoint % 128]

\* the decoder that takes any \u escape behind a high surrogate
utf16_literal_to_utf8_any_second(content, input_pointer, input_end) ==
    LET first_sequence == input_pointer
        first_code == parse_hex4(content, first_sequence + 2)
        first_last == parse_hex4_last(content, first_sequence + 2, 0)
        second_sequence == first_sequence + 6
        second_code == parse_hex4(content, second_sequence + 2)
        codepoint == 65536 + ((first_code % 1024) * 1024 + (second_code % 1024))
        Fail(seen) == [sequence_length |-> 0, utf8 |-> <<>>, last |-> seen]
    IN IF input_end - first_sequence < 6 THEN Fail(first_sequence)
       ELSE IF first_code >= 56320 /\ first_code <= 57343 THEN Fail(first_last)
       ELSE IF first_code >= 55296 /\ first_code <= 56319
       THEN (IF input_end - second_sequence < 6 THEN Fail(first_last)
             ELSE IF ByteAt(content, second_sequence) # Ch.backslash
             THEN Fail(second_sequence)
             ELSE IF ByteAt(content, second_sequence + 1) # Ch.u
             THEN Fail(second_sequence + 1)
             ELSE IF codepoint > 1114111
             THEN Fail(parse_hex4_last(content, second_sequence + 2, 0))
             ELSE [sequence_length |-> 12, utf8 |-> utf8_encode(codepoint),
                   last |-> parse_hex4_last(content, second_sequence + 2, 0)])
       ELSE [sequence_length |-> 6, utf8 |-> utf8_encode(first_code),
             last |-> first_last]

\* the length of the sequence consumed (0: failure), the bytes written and
\* the index of the last byte of the input looked at
utf16_literal_to_utf8(content, input_pointer, input_end) ==
    LET first_sequence == input_pointer
        first_code == parse_hex4(content, first_sequence + 2)
        first_last == parse_hex4_last(content, first_sequence + 2, 0)
        second_sequence == first_sequence + 6
        second_code == parse_hex4(content, second_sequence + 2)
        codepoint == 65536 + ((first_code % 1024) * 1024 + (second_code % 1024))
        Fail(seen) == [sequence_length |-> 0, utf8 |-> <<>>, last |-> seen]
    IN IF input_end - first_sequence < 6 THEN Fail(first_sequence)
       ELSE IF first_code >= 56320 /\ first_code <= 57343 THEN Fail(first_last)
       ELSE IF first_code >= 55296 /\ first_code <= 56319
       THEN (IF input_end - second_sequence < 6 THEN Fail(first_last)
             ELSE IF ByteAt(content, second_sequence) # Ch.backslash
             THEN Fail(second_sequence)
             ELSE IF ByteAt(content, second_sequence + 1) # Ch.u
             THEN Fail(second_sequence + 1)
             ELSE IF second_code < 56320 \/ second_code > 57343
             THEN Fail(parse_hex4_last(content, second_sequence + 2, 0))
             ELSE IF codepoint > 1114111
             THEN Fail(parse_hex4_last(content, second_sequence + 2, 0))
             ELSE [sequence_length |-> 12, utf8 |-> utf8_encode(codepoint),
                   last |-> parse_hex4_last(content, second_sequence + 2, 0)])
       ELSE [sequence_length |-> 6, utf8 |-> utf8_encode(first_code),
             last |-> first_last]

\* a written block read as a C string: it ends at its first nul byte
RECURSIVE CString(_)
CString(bytes) ==
    IF bytes = <<>> \/ Head(bytes) = Ch.nul THEN <<>>
    ELSE <<Head(bytes)>> \o CString(Tail(bytes))

\* the first loop of parse_string: the closing quote is looked for
RECURSIVE parse_string_scan(_, _, _)
parse_string_scan(buffer, input_end, skipped_bytes) ==
    IF input_end < buffer.length /\ ByteAt(buffer.content, input_end) # Ch.quote
    THEN (IF ByteAt(buffer.content, input_end) = Ch.backslash
          THEN (IF input_end + 1 >= buffer.length
                THEN [b |-> ReadAt(buffer, input_end), input_end |-> input_end,
                      skipped_bytes |-> skipped_bytes, ok |-> FALSE]
                ELSE parse_string_scan(ReadAt(buffer, input_end), input_end + 2,
                                       skipped_bytes + 1))
          ELSE parse_string_scan(ReadAt(buffer, input_end), input_end + 1,
                                 skipped_bytes))
    ELSE [b |-> IF input_end < buffer.length THEN ReadAt(buffer, input_end)
                ELSE buffer,
          input_end |-> input_end, skipped_bytes |-> skipped_bytes, ok |-> TRUE]

\* the second loop of parse_string: the literal is copied without its escapes
RECURSIVE parse_string_copy(_, _, _, _)
parse_string_copy(buffer, input_pointer, input_end, output) ==
    LET c == ByteAt(buffer.content, input_pointer)
        escaped == ByteAt(buffer.content, input_pointer + 1)
        seen == ReadAt(buffer, input_pointer)
        seen2 == ReadAt(ReadAt(buffer, input_pointer), input_pointer + 1)
        Fail(b) == [b |-> b, input_pointer |-> input_pointer, output |-> output,
                    ok |-> FALSE]
        Plain(byte) == parse_string_copy(seen2, input_pointer + 2, input_end,
                                         Append(output, byte))
        Literal(literal) ==
            IF literal.sequence_length = 0 THEN Fail(ReadAt(seen2, literal.last))
            ELSE parse_string_copy(ReadAt(seen2, literal.last),
                                   input_pointer + literal.sequence_length,
                                   input_end, output \o literal.utf8)
    IN IF input_pointer >= input_end
       THEN [b |-> buffer, input_pointer |-> input_pointer, output |-> output,
             ok |-> TRUE]
       ELSE IF c # Ch.backslash
       THEN parse_string_copy(seen, input_pointer + 1, input_end, Append(output, c))
       ELSE IF input_end - input_pointer < 1 THEN Fail(seen)
       ELSE IF escaped = Ch.b THEN Plain(Ch.bs)
       ELSE IF escaped = Ch.f THEN Plain(Ch.ff)
       ELSE IF escaped = Ch.n THEN Plain(Ch.lf)
       ELSE IF escaped = Ch.r THEN Plain(Ch.cr)
       ELSE IF escaped = Ch.t THEN Plain(Ch.tab)
       ELSE IF escaped \in {Ch.quote, Ch.backslash, Ch.slash} THEN Plain(escaped)
       ELSE IF escaped = Ch.u
       THEN Literal(utf16_literal_to_utf8(buffer.content, input_pointer, input_end))
       ELSE Fail(seen2)

\* the fail label of parse_string
parse_string_fail(buffer, output, input_pointer) ==
    [b |-> [buffer EXCEPT !.hooks = IF output # NULL THEN deallocateS(@, output) ELSE @,
                          !.offset = input_pointer],
     ok |-> FALSE]

parse_string(item, input_buffer) ==
    LET start == input_buffer.offset + 1
        Copied(input_end, output, copy) ==
            IF ~copy.ok THEN parse_string_fail(copy.b, output, copy.input_pointer)
            ELSE [b |-> [copy.b EXCEPT
                           !.hooks.strs[output] = CString(copy.output),
                           !.hooks.nodes[item].type = TypeOf(cJSON_String),
                           !.hooks.nodes[item].valuestring = output,
                           !.offset = input_end + 1],
                  ok |-> TRUE]
        Allocated(scan, allocated) ==
            IF allocated.p = NULL
            THEN parse_string_fail([scan.b EXCEPT !.hooks = allocated.h], NULL, start)
            ELSE Copied(scan.input_end, allocated.p,
                        parse_string_copy([scan.b EXCEPT !.hooks = allocated.h],
                                          start, scan.input_end, <<>>))
        Scanned(scan) ==
            IF ~scan.ok \/ scan.input_end >= scan.b.length
               \/ ByteAt(scan.b.content, scan.input_end) # Ch.quote
            THEN parse_string_fail(scan.b, NULL, start)
            ELSE Allocated(scan, AllocString(scan.b.hooks, <<>>))
    IN IF buffer_at_offset(input_buffer, 0) # Ch.quote
       THEN parse_string_fail(Read(input_buffer, 0), NULL, start)
       ELSE Scanned(parse_string_scan(Read(input_buffer, 0), start, 0))

(* Values, arrays and objects *)

LiteralNull == <<Ch.n, Ch.u, Ch.l, Ch.l>>
LiteralFalse == <<Ch.f, Ch.a, Ch.l, Ch.s, Ch.e>>
LiteralTrue == <<Ch.t, Ch.r, Ch.u, Ch.e>>

\* can_read(buffer, n) && strncmp(buffer_at_offset(buffer), literal, n) == 0
IsLiteral(buffer, literal) ==
    can_read(buffer, Len(literal)) /\ strncmp_equal(buffer, literal)
\* the ghost of that test
TestLiteral(buffer, literal) ==
    IF can_read(buffer, Len(literal)) THEN strncmp_read(buffer, literal) ELSE buffer

\* the nesting test passing one level more
too_deeply_nested_above(input_buffer) == input_buffer.depth > CJSON_NESTING_LIMIT

\* the nesting test at the head of parse_array and parse_object
too_deeply_nested(input_buffer) == input_buffer.depth >= CJSON_NESTING_LIMIT

\* the new item is put behind the last one of the list
link_new_item(buffer, head, current_item, new_item) ==
    IF head = NULL THEN buffer
    ELSE [buffer EXCEPT !.hooks.nodes[current_item].next = new_item,
                        !.hooks.nodes[new_item].prev = current_item]

\* the success label of parse_array and parse_object
parse_success(buffer, item, kind, head, current_item) ==
    LET closed == IF head # NULL
                  THEN [buffer EXCEPT !.hooks.nodes[head].prev = current_item]
                  ELSE buffer
    IN [b |-> [closed EXCEPT !.depth = @ - 1,
                             !.hooks.nodes[item].type = TypeOf(kind),
                             !.hooks.nodes[item].child = head,
                             !.offset = @ + 1],
        ok |-> TRUE]

\* the fail label without its cJSON_Delete
parse_fail_keeping(buffer, head) == [b |-> buffer, ok |-> FALSE]

\* the fail label of parse_array and parse_object
parse_fail(buffer, head) ==
    [b |-> [buffer EXCEPT !.hooks = IF head # NULL THEN cJSON_Delete(@, head) ELSE @],
     ok |-> FALSE]

RECURSIVE parse_value(_, _)
RECURSIVE parse_array_loop(_, _, _, _)
RECURSIVE parse_object_loop(_, _, _, _)

parse_array(item, input_buffer) ==
    LET entered == Read([input_buffer EXCEPT !.depth = @ + 1], 0)
        inside == buffer_skip_whitespace(Advance(entered, 1))
        looked == Guarded(inside, 0)
    IN IF too_deeply_nested(input_buffer) THEN [b |-> input_buffer, ok |-> FALSE]
       ELSE IF buffer_at_offset(input_buffer, 0) # Ch.lbracket
       THEN parse_fail(entered, NULL)
       ELSE IF can_access_at_index(inside, 0)
               /\ buffer_at_offset(inside, 0) = Ch.rbracket
       THEN parse_success(looked, item, cJSON_Array, NULL, NULL)
       ELSE IF cannot_access_at_index(inside, 0)
       THEN parse_fail(Advance(looked, -1), NULL)
       ELSE parse_array_loop(item, Advance(looked, -1), NULL, NULL)

\* one turn of the do-while loop of parse_array and what follows it
parse_array_loop(item, input_buffer, head, current_item) ==
    LET new == cJSON_New_Item(input_buffer.hooks)
        new_item == new.p
        new_head == IF head = NULL THEN new_item ELSE head
        linked == link_new_item([input_buffer EXCEPT !.hooks = new.h],
                                head, current_item, new_item)
        AfterElement(after) ==
            IF can_access_at_index(after, 0) /\ buffer_at_offset(after, 0) = Ch.comma
            THEN parse_array_loop(item, Guarded(after, 0), new_head, new_item)
            ELSE IF cannot_access_at_index(after, 0)
                    \/ buffer_at_offset(after, 0) # Ch.rbracket
            THEN parse_fail(Guarded(after, 0), new_head)
            ELSE parse_success(Guarded(after, 0), item, cJSON_Array, new_head, new_item)
        AfterValue(value) ==
            IF ~value.ok THEN parse_fail(value.b, new_head)
            ELSE AfterElement(buffer_skip_whitespace(value.b))
    IN IF new_item = NULL
       THEN parse_fail([input_buffer EXCEPT !.hooks = new.h], head)
       ELSE AfterValue(parse_value(new_item,
                                   buffer_skip_whitespace(Advance(linked, 1))))

parse_object(item, input_buffer) ==
    LET entered == Guarded([input_buffer EXCEPT !.depth = @ + 1], 0)
        inside == buffer_skip_whitespace(Advance(entered, 1))
        looked == Guarded(inside, 0)
    IN IF too_deeply_nested(input_buffer) THEN [b |-> input_buffer, ok |-> FALSE]
       ELSE IF cannot_access_at_index(input_buffer, 0)
               \/ buffer_at_offset(input_buffer, 0) # Ch.lbrace
       THEN parse_fail(entered, NULL)
       ELSE IF can_access_at_index(inside, 0)
               /\ buffer_at_offset(inside, 0) = Ch.rbrace
       THEN parse_success(looked, item, cJSON_Object, NULL, NULL)
       ELSE IF cannot_access_at_index(inside, 0)
       THEN parse_fail(Advance(looked, -1), NULL)
       ELSE parse_object_loop(item, Advance(looked, -1), NULL, NULL)

\* one turn of the do-while loop of parse_object and what follows it
parse_object_loop(item, input_buffer, head, current_item) ==
    LET new == cJSON_New_Item(input_buffer.hooks)
        new_item == new.p
        new_head == IF head = NULL THEN new_item ELSE head
        linked == link_new_item([input_buffer EXCEPT !.hooks = new.h],
                                head, current_item, new_item)
        AfterMember(after) ==
            IF can_access_at_index(after, 0) /\ buffer_at_offset(after, 0) = Ch.comma
            THEN parse_object_loop(item, Guarded(after, 0), new_head, new_item)
            ELSE IF cannot_access_at_index(after, 0)
                    \/ buffer_at_offset(after, 0) # Ch.rbrace
            THEN parse_fail(Guarded(after, 0), new_head)
            ELSE parse_success(Guarded(after, 0), item, cJSON_Object, new_head, new_item)
        AfterValue(value) ==
            IF ~value.ok THEN parse_fail(value.b, new_head)
            ELSE AfterMember(buffer_skip_whitespace(value.b))
        AfterName(named) ==
            IF cannot_access_at_index(named, 0)
               \/ buffer_at_offset(named, 0) # Ch.colon
            THEN parse_fail(Guarded(named, 0), new_head)
            ELSE AfterValue(parse_value(new_item, buffer_skip_whitespace(
                                            Advance(Guarded(named, 0), 1))))
        \* swap valuestring and string
        Named(name, skipped) ==
            IF ~name.ok THEN parse_fail(name.b, new_head)
            ELSE AfterName([skipped EXCEPT
                              !.hooks.nodes[new_item].string =
                                  name.b.hooks.nodes[new_item].valuestring,
                              !.hooks.nodes[new_item].valuestring = NULL])
        Name(name) == Named(name, buffer_skip_whitespace(name.b))
    IN IF new_item = NULL
       THEN parse_fail([input_buffer EXCEPT !.hooks = new.h], head)
       ELSE IF cannot_access_at_index(linked, 1) THEN parse_fail(linked, new_head)
       ELSE Name(parse_string(new_item, buffer_skip_whitespace(Advance(linked, 1))))

parse_value(item, input_buffer) ==
    LET null == TestLiteral(input_buffer, LiteralNull)
        false == TestLiteral(null, LiteralFalse)
        true == TestLiteral(false, LiteralTrue)
        looked == Guarded(true, 0)
        first == buffer_at_offset(input_buffer, 0)
        can == can_access_at_index(input_buffer, 0)
    IN IF IsLiteral(input_buffer, LiteralNull)
       THEN [b |-> [Advance(null, 4) EXCEPT
                      !.hooks.nodes[item].type = TypeOf(cJSON_NULL)],
             ok |-> TRUE]
       ELSE IF IsLiteral(input_buffer, LiteralFalse)
       THEN [b |-> [Advance(false, 5) EXCEPT
                      !.hooks.nodes[item].type = TypeOf(cJSON_False)],
             ok |-> TRUE]
       ELSE IF IsLiteral(input_buffer, LiteralTrue)
       THEN [b |-> [Advance(true, 4) EXCEPT
                      !.hooks.nodes[item].type = TypeOf(cJSON_True),
                      !.hooks.nodes[item].valueint = 1],
             ok |-> TRUE]
       ELSE IF can /\ first = Ch.quote THEN parse_string(item, looked)
       ELSE IF can /\ (first = Ch.minus \/ IsDigit(first)) THEN parse_number(item, looked)
       ELSE IF can /\ first = Ch.lbracket THEN parse_array(item, looked)
       ELSE IF can /\ first = Ch.lbrace THEN parse_object(item, looked)
       ELSE [b |-> looked, ok |-> FALSE]

(* The entry points.  value is the address of the caller's memory (NULL or *)
(* not), content its bytes.  A pointer into that memory is the pair of the *)
(* address and an offset; the null pointer has both zero.                  *)

Pointer(base, position) == [json |-> base, position |-> position]
NullPointer == Pointer(NULL, 0)

cJSON_GetErrorPtr(error) == Pointer(error.json, error.position)

\* the parse buffer of cJSON_ParseWithLengthOpts before it is filled
ZeroBuffer(hooks) == [content |-> <<>>, length |-> 0, offset |-> 0, depth |-> 0,
                      hooks |-> hooks, oob |-> FALSE]

\* the fail label that takes the length for the offset of the last byte
ParseWithLengthOpts_fail_at_length(buffer, item, value, return_parse_end) ==
    LET position == IF buffer.offset < buffer.length THEN buffer.offset
                    ELSE IF buffer.length > 0 THEN buffer.length
                    ELSE 0
    IN [h |-> IF item # NULL THEN cJSON_Delete(buffer.hooks, item) ELSE buffer.hooks,
        item |-> NULL,
        global_error |-> IF value # NULL THEN Pointer(value, position) ELSE NullPointer,
        return_parse_end |-> IF value # NULL /\ return_parse_end
                             THEN Pointer(value, position) ELSE NullPointer,
        offset |-> buffer.offset, oob |-> buffer.oob]

\* the fail label recording the cursor as it stands
ParseWithLengthOpts_fail_at_cursor(buffer, item, value, return_parse_end) ==
    [h |-> IF item # NULL THEN cJSON_Delete(buffer.hooks, item) ELSE buffer.hooks,
     item |-> NULL,
     global_error |-> IF value # NULL THEN Pointer(value, buffer.offset)
                      ELSE NullPointer,
     return_parse_end |-> IF value # NULL /\ return_parse_end
                          THEN Pointer(value, buffer.offset) ELSE NullPointer,
     offset |-> buffer.offset, oob |-> buffer.oob]

\* the fail label of cJSON_ParseWithLengthOpts
ParseWithLengthOpts_fail(buffer, item, value, return_parse_end) ==
    LET position == IF buffer.offset < buffer.length THEN buffer.offset
                    ELSE IF buffer.length > 0 THEN buffer.length - 1
                    ELSE 0
    IN [h |-> IF item # NULL THEN cJSON_Delete(buffer.hooks, item) ELSE buffer.hooks,
        item |-> NULL,
        global_error |-> IF value # NULL THEN Pointer(value, position) ELSE NullPointer,
        return_parse_end |-> IF value # NULL /\ return_parse_end
                             THEN Pointer(value, position) ELSE NullPointer,
        offset |-> buffer.offset, oob |-> buffer.oob]

\* return_parse_end tells whether the caller passed a place for the end
cJSON_ParseWithLengthOpts(h, value, content, buffer_length, return_parse_end, require_null_terminated) ==
    LET buffer == [ZeroBuffer(h) EXCEPT !.content = content, !.length = buffer_length]
        new == cJSON_New_Item(h)
        item == new.p
        Success(final) ==
            [h |-> final.hooks, item |-> item, global_error |-> NullPointer,
             return_parse_end |-> IF return_parse_end
                                  THEN Pointer(value, final.offset) ELSE NullPointer,
             offset |-> final.offset, oob |-> final.oob]
        Terminated(terminated) ==
            IF terminated.offset >= terminated.length
            THEN ParseWithLengthOpts_fail(terminated, item, value, return_parse_end)
            ELSE IF buffer_at_offset(terminated, 0) # Ch.nul
            THEN ParseWithLengthOpts_fail(Read(terminated, 0), item, value,
                                          return_parse_end)
            ELSE Success(Read(terminated, 0))
        AfterValue(parsed) ==
            IF ~parsed.ok
            THEN ParseWithLengthOpts_fail(parsed.b, item, value, return_parse_end)
            ELSE IF require_null_terminated
            THEN Terminated(buffer_skip_whitespace(parsed.b))
            ELSE Success(parsed.b)
    IN IF value = NULL \/ buffer_length = 0
       THEN ParseWithLengthOpts_fail(ZeroBuffer(h), NULL, value, return_parse_end)
       ELSE IF item = NULL
       THEN ParseWithLengthOpts_fail([buffer EXCEPT !.hooks = new.h], NULL, value,
                                     return_parse_end)
       ELSE AfterValue(parse_value(item, buffer_skip_whitespace(skip_utf8_bom(
                                             [buffer EXCEPT !.hooks = new.h]))))

\* strlen of the caller's memory: the index of its first nul byte
RECURSIVE strlen(_)
strlen(content) ==
    IF content = <<>> \/ Head(content) = Ch.nul THEN 0 ELSE 1 + strlen(Tail(content))

\* error is the error slot as the call finds it: a null value leaves it alone
cJSON_ParseWithOpts(h, error, value, content, return_parse_end, require_null_terminated) ==
    IF value = NULL
    THEN [h |-> h, item |-> NULL, global_error |-> error,
          return_parse_end |-> NullPointer, offset |-> 0, oob |-> FALSE]
    ELSE cJSON_ParseWithLengthOpts(h, value, content, strlen(content) + 1,
                                   return_parse_end, require_null_terminated)

cJSON_Parse(h, error, value, content) ==
    cJSON_ParseWithOpts(h, error, value, content, FALSE, FALSE)

cJSON_ParseWithLength(h, value, content, buffer_length) ==
    cJSON_ParseWithLengthOpts(h, value, content, buffer_length, FALSE, FALSE)

---------------------------------------------------------------------------
(* The serializer.  A printbuffer carries the block it writes to (buffer,  *)
(* NULL once ensure has given it up), the bytes the block holds from its   *)
(* start (bytes; what lies behind them was never written), the capacity,   *)
(* the cursor and the depth; hooks is the heap.  overrun and undefined are *)
(* ghosts: a byte was written at an index that is not below length, and    *)
(* strlen ran into bytes that were never written.                          *)

default_buffer_size == 256

\* the bytes of a block after text is stored from index offset on
Store(bytes, offset, text) ==
    [i \in 1..Max(Len(bytes), offset + Len(text)) |->
        IF i > offset /\ i <= offset + Len(text) THEN text[i - offset] ELSE bytes[i]]

\* a write of text through the pointer ensure returned, index bytes on
WriteAt(p, index, text) ==
    [p EXCEPT !.bytes = Store(@, p.offset + index, text),
              !.overrun = @ \/ p.offset + index + Len(text) > p.length]

Write(p, text) == WriteAt(p, 0, text)

\* ensure that asks for no byte more than the bytes needed
ensure_without_spare(p, needed) ==
    LET Grown(size, newsize) ==
            IF AllocFails(p.hooks)
            THEN [p |-> [p EXCEPT !.hooks = deallocateS(AfterAlloc(@), p.buffer),
                                  !.length = 0, !.buffer = NULL],
                  ok |-> FALSE]
            ELSE [p |-> [p EXCEPT !.hooks = AfterAlloc(@), !.length = newsize],
                  ok |-> TRUE]
        Sized(size) ==
            IF size <= p.length THEN [p |-> p, ok |-> TRUE]
            ELSE IF p.noalloc THEN [p |-> p, ok |-> FALSE]
            ELSE Grown(size, IF size > INT_MAX \div 2 THEN INT_MAX ELSE size * 2)
    IN IF p.buffer = NULL THEN [p |-> p, ok |-> FALSE]
       ELSE IF p.length > 0 /\ p.offset >= p.length THEN [p |-> p, ok |-> FALSE]
       ELSE IF needed > INT_MAX - p.offset - 1 THEN [p |-> p, ok |-> FALSE]
       ELSE Sized(needed + p.offset)

\* ensure without its test of noalloc
ensure_ignoring_noalloc(p, needed) ==
    LET Grown(size, newsize) ==
            IF AllocFails(p.hooks)
            THEN [p |-> [p EXCEPT !.hooks = deallocateS(AfterAlloc(@), p.buffer),
                                  !.length = 0, !.buffer = NULL],
                  ok |-> FALSE]
            ELSE [p |-> [p EXCEPT !.hooks = AfterAlloc(@), !.length = newsize],
                  ok |-> TRUE]
        Sized(size) ==
            IF size <= p.length THEN [p |-> p, ok |-> TRUE]
            ELSE Grown(size, IF size > INT_MAX \div 2 THEN INT_MAX ELSE size * 2)
    IN IF p.buffer = NULL THEN [p |-> p, ok |-> FALSE]
       ELSE IF p.length > 0 /\ p.offset >= p.length THEN [p |-> p, ok |-> FALSE]
       ELSE IF needed > INT_MAX - p.offset - 1 THEN [p |-> p, ok |-> FALSE]
       ELSE Sized(needed + p.offset + 1)

ensure(p, needed) ==
    LET Grown(size, newsize) ==
            IF AllocFails(p.hooks)
            THEN [p |-> [p EXCEPT !.hooks = deallocateS(AfterAlloc(@), p.buffer),
                                  !.length = 0, !.buffer = NULL],
                  ok |-> FALSE]
            ELSE [p |-> [p EXCEPT !.hooks = AfterAlloc(@), !.length = newsize],
                  ok |-> TRUE]
        Sized(size) ==
            IF size <= p.length THEN [p |-> p, ok |-> TRUE]
            ELSE IF p.noalloc THEN [p |-> p, ok |-> FALSE]
            ELSE Grown(size, IF size > INT_MAX \div 2 THEN INT_MAX ELSE size * 2)
    IN IF p.buffer = NULL THEN [p |-> p, ok |-> FALSE]
       ELSE IF p.length > 0 /\ p.offset >= p.length THEN [p |-> p, ok |-> FALSE]
       ELSE IF needed > INT_MAX - p.offset - 1 THEN [p |-> p, ok |-> FALSE]
       ELSE Sized(needed + p.offset + 1)

\* strlen from the cursor on: the bytes up to the first nul byte, or all
\* the bytes that were written if none of them is one
update_offset(buffer) ==
    IF buffer.buffer = NULL THEN buffer
    ELSE LET Counted(written) ==
                 [buffer EXCEPT !.offset = @ + strlen(written),
                                !.undefined = @ \/ strlen(written) = Len(written)]
         IN Counted(SubSeq(buffer.bytes, buffer.offset + 1, Len(buffer.bytes)))

\* fabs(a - b) <= max(fabs(a), fabs(b)) * DBL_EPSILON.  Two decimals of the
\* model that differ differ by more than that; an infinity minus itself is
\* not a number, and compares false.
compare_double(a, b) ==
    IF IsFinite(a) /\ IsFinite(b) THEN a = b
    ELSE IF IsFinite(a) \/ IsFinite(b) THEN TRUE
    ELSE a # b

\* the decimal digits of a natural number
RECURSIVE DecimalText(_)
DecimalText(n) ==
    IF n < 10 THEN <<Ch.zero + n>>
    ELSE Append(DecimalText(n \div 10), Ch.zero + (n % 10))

\* sprintf("%d", i)
FormatD(i) ==
    IF i >= 0 THEN DecimalText(i)
    ELSE LET below == -(i + 1)
         IN <<Ch.minus>>
            \o (IF below % 10 = 9 THEN DecimalText(below \div 10 + 1) \o <<Ch.zero>>
                ELSE (IF below < 10 THEN <<>> ELSE DecimalText(below \div 10))
                     \o <<Ch.zero + (below % 10) + 1>>)

\* sprintf("%1.15g", d) and sprintf("%1.17g", d) on a decimal of fewer
\* digits than the precision: the digits as they are, in exponent form
\* when the decimal exponent is below -4 or not below the precision
FormatG(d, precision) ==
    LET digits == DecimalText(Abs(d.m))
        exponent == Exponent10(d)
    IN (IF d.m < 0 THEN <<Ch.minus>> ELSE <<>>)
       \o (IF exponent < -4 \/ exponent >= precision
           THEN <<digits[1]>>
                \o (IF Len(digits) > 1 THEN <<Ch.dot>> \o Tail(digits) ELSE <<>>)
                \o <<Ch.e, IF exponent < 0 THEN Ch.minus ELSE Ch.plus>>
                \o (IF Abs(exponent) < 10 THEN <<Ch.zero>> ELSE <<>>)
                \o DecimalText(Abs(exponent))
           ELSE IF d.e >= 0 THEN digits \o Repeat(<<Ch.zero>>, d.e)
           ELSE IF exponent >= 0
           THEN SubSeq(digits, 1, exponent + 1) \o <<Ch.dot>>
                \o SubSeq(digits, exponent + 2, Len(digits))
           ELSE <<Ch.zero, Ch.dot>> \o Repeat(<<Ch.zero>>, -exponent - 1) \o digits)

\* sizeof(number_buffer) - 1
NumberBufferLength == 25

\* print_number as cJSON_PrintUnformatted of a number would give it if every
\* number were printed with "%d" of its integer mirror
print_number_as_int(item, output_buffer) ==
    LET Copied(r, text) ==
            IF ~r.ok THEN r
            ELSE [p |-> [Write(r.p, Append(text, Ch.nul)) EXCEPT !.offset = @ + Len(text)],
                  ok |-> TRUE]
        Reserved(text) == Copied(ensure(output_buffer, Len(text) + 1), text)
    IN Reserved(FormatD(output_buffer.hooks.nodes[item].valueint))

print_number(item, output_buffer) ==
    LET Copied(r, text) ==
            IF ~r.ok THEN r
            ELSE [p |-> [Write(r.p, Append(text, Ch.nul)) EXCEPT !.offset = @ + Len(text)],
                  ok |-> TRUE]
        Reserved(text) ==
            IF Len(text) > NumberBufferLength THEN [p |-> output_buffer, ok |-> FALSE]
            ELSE Copied(ensure(output_buffer, Len(text) + 1), text)
        \* sscanf("%lg") of the text and the comparison with d
        Tried(d, text, test) ==
            IF test.after_end = 0 \/ ~compare_double(test.number, d)
            THEN FormatG(d, 17) ELSE text
        Formatted(d, text) == Tried(d, text, strtod(text))
        Of(d, valueint) ==
            IF ~IsFinite(d) THEN LiteralNull
            ELSE IF d = Canonical(valueint, 0) THEN FormatD(valueint)
            ELSE Formatted(d, FormatG(d, 15))
    IN Reserved(Of(output_buffer.hooks.nodes[item].valuedouble,
                   output_buffer.hooks.nodes[item].valueint))

HexDigit(n) == IF n < 10 THEN Ch.zero + n ELSE Ch.a + n - 10

\* what the second loop of print_string_ptr writes for one byte
escape_sequence(c) ==
    IF c > 31 /\ c # Ch.quote /\ c # Ch.backslash THEN <<c>>
    ELSE IF c = Ch.backslash THEN <<Ch.backslash, Ch.backslash>>
    ELSE IF c = Ch.quote THEN <<Ch.backslash, Ch.quote>>
    ELSE IF c = Ch.bs THEN <<Ch.backslash, Ch.b>>
    ELSE IF c = Ch.ff THEN <<Ch.backslash, Ch.f>>
    ELSE IF c = Ch.lf THEN <<Ch.backslash, Ch.n>>
    ELSE IF c = Ch.cr THEN <<Ch.backslash, Ch.r>>
    ELSE IF c = Ch.tab THEN <<Ch.backslash, Ch.t>>
    ELSE <<Ch.backslash, Ch.u, Ch.zero, Ch.zero, HexDigit(c \div 16), HexDigit(c % 16)>>

\* what the first loop of print_string_ptr counts for one byte
escape_characters(c) ==
    IF c \in {Ch.quote, Ch.backslash, Ch.bs, Ch.ff, Ch.lf, Ch.cr, Ch.tab} THEN 1
    ELSE IF c < 32 THEN 5
    ELSE 0

RECURSIVE escaped_string(_)
escaped_string(input) ==
    IF input = <<>> THEN <<>>
    ELSE escape_sequence(Head(input)) \o escaped_string(Tail(input))

RECURSIVE escaped_length(_)
escaped_length(input) ==
    IF input = <<>> THEN 0
    ELSE 1 + escape_characters(Head(input)) + escaped_length(Tail(input))

\* input is the address of the string, or NULL
print_string_ptr(input, output_buffer) ==
    LET Quoted(r, output_length, text) ==
            IF ~r.ok THEN r
            ELSE [p |-> WriteAt(Write(r.p, <<Ch.quote>> \o text),
                                output_length + 1, <<Ch.quote, Ch.nul>>),
                  ok |-> TRUE]
        Counted(string, output_length) ==
            Quoted(ensure(output_buffer, output_length + 3), output_length,
                   IF output_length = Len(string) THEN string
                   ELSE escaped_string(string))
        Empty(r) ==
            IF ~r.ok THEN r
            ELSE [p |-> Write(r.p, <<Ch.quote, Ch.quote, Ch.nul>>), ok |-> TRUE]
        Of(string) == Counted(string, escaped_length(string))
    IN IF input = NULL THEN Empty(ensure(output_buffer, 3))
       ELSE Of(output_buffer.hooks.strs[input])

print_string(item, p) ==
    print_string_ptr(p.hooks.nodes[item].valuestring, p)

RECURSIVE print_value(_, _)
RECURSIVE print_array_loop(_, _)
RECURSIVE print_object_loop(_, _)

\* the array printer that leaves the depth of its printbuffer alone
print_array_keeping_depth(item, output_buffer) ==
    LET Closed(r) ==
            IF ~r.ok THEN r
            ELSE [p |-> Write(r.p, <<Ch.rbracket, Ch.nul>>),
                  ok |-> TRUE]
        Looped(r) == IF ~r.ok THEN r ELSE Closed(ensure(r.p, 2))
        Opened(r) ==
            IF ~r.ok THEN r
            ELSE Looped(print_array_loop(
                     output_buffer.hooks.nodes[item].child,
                     [Write(r.p, <<Ch.lbracket>>) EXCEPT !.offset = @ + 1]))
    IN Opened(ensure(output_buffer, 1))

print_array(item, output_buffer) ==
    LET Closed(r) ==
            IF ~r.ok THEN r
            ELSE [p |-> [Write(r.p, <<Ch.rbracket, Ch.nul>>) EXCEPT !.depth = @ - 1],
                  ok |-> TRUE]
        Looped(r) == IF ~r.ok THEN r ELSE Closed(ensure(r.p, 2))
        Opened(r) ==
            IF ~r.ok THEN r
            ELSE Looped(print_array_loop(
                     output_buffer.hooks.nodes[item].child,
                     [Write(r.p, <<Ch.lbracket>>) EXCEPT !.offset = @ + 1,
                                                          !.depth = @ + 1]))
    IN Opened(ensure(output_buffer, 1))

\* the while loop of print_array from current_element on
print_array_loop(current_element, output_buffer) ==
    IF current_element = NULL THEN [p |-> output_buffer, ok |-> TRUE]
    ELSE LET Separated(r, length, next) ==
                 IF ~r.ok THEN r
                 ELSE print_array_loop(
                          next,
                          [Write(r.p, <<Ch.comma>>
                                      \o (IF r.p.format THEN <<Ch.sp>> ELSE <<>>)
                                      \o <<Ch.nul>>)
                             EXCEPT !.offset = @ + length])
             Printed(p, length, next) ==
                 IF next # NULL THEN Separated(ensure(p, length + 1), length, next)
                 ELSE print_array_loop(next, p)
             Valued(r) ==
                 IF ~r.ok THEN r
                 ELSE Printed(update_offset(r.p), IF r.p.format THEN 2 ELSE 1,
                              r.p.hooks.nodes[current_element].next)
         IN Valued(print_value(current_element, output_buffer))

print_object(item, output_buffer) ==
    LET Closed(r) ==
            IF ~r.ok THEN r
            ELSE [p |-> [Write(r.p, (IF r.p.format
                                     THEN Repeat(<<Ch.tab>>, r.p.depth - 1) ELSE <<>>)
                                    \o <<Ch.rbrace, Ch.nul>>)
                           EXCEPT !.depth = @ - 1],
                  ok |-> TRUE]
        Looped(r) ==
            IF ~r.ok THEN r
            ELSE Closed(ensure(r.p, IF r.p.format THEN r.p.depth + 1 ELSE 2))
        Opened(r, length) ==
            IF ~r.ok THEN r
            ELSE Looped(print_object_loop(
                     output_buffer.hooks.nodes[item].child,
                     [Write(r.p, <<Ch.lbrace>>
                                 \o (IF r.p.format THEN <<Ch.lf>> ELSE <<>>))
                        EXCEPT !.depth = @ + 1, !.offset = @ + length]))
        Sized(length) == Opened(ensure(output_buffer, length + 1), length)
    IN Sized(IF output_buffer.format THEN 2 ELSE 1)

\* the while loop of print_object from current_item on
print_object_loop(current_item, output_buffer) ==
    IF current_item = NULL THEN [p |-> output_buffer, ok |-> TRUE]
    ELSE LET Separated(r, length, next) ==
                 IF ~r.ok THEN r
                 ELSE print_object_loop(
                          next,
                          [Write(r.p, (IF next # NULL THEN <<Ch.comma>> ELSE <<>>)
                                      \o (IF r.p.format THEN <<Ch.lf>> ELSE <<>>)
                                      \o <<Ch.nul>>)
                             EXCEPT !.offset = @ + length])
             Printed(p, next) ==
                 Separated(ensure(p, (IF p.format THEN 1 ELSE 0)
                                     + (IF next # NULL THEN 1 ELSE 0) + 1),
                           (IF p.format THEN 1 ELSE 0) + (IF next # NULL THEN 1 ELSE 0),
                           next)
             Valued(r) ==
                 IF ~r.ok THEN r
                 ELSE Printed(update_offset(r.p), r.p.hooks.nodes[current_item].next)
             Split(r, length) ==
                 IF ~r.ok THEN r
                 ELSE Valued(print_value(
                          current_item,
                          [Write(r.p, <<Ch.colon>>
                                      \o (IF r.p.format THEN <<Ch.tab>> ELSE <<>>))
                             EXCEPT !.offset = @ + length]))
             Named(p) == Split(ensure(p, IF p.format THEN 2 ELSE 1),
                               IF p.format THEN 2 ELSE 1)
             Keyed(r) == IF ~r.ok THEN r ELSE Named(update_offset(r.p))
             Indented(r) ==
                 IF ~r.ok THEN r
                 ELSE Keyed(print_string_ptr(
                          r.p.hooks.nodes[current_item].string,
                          [Write(r.p, Repeat(<<Ch.tab>>, r.p.depth))
                             EXCEPT !.offset = @ + r.p.depth]))
         IN IF output_buffer.format
            THEN Indented(ensure(output_buffer, output_buffer.depth))
            ELSE Keyed(print_string_ptr(output_buffer.hooks.nodes[current_item].string,
                                        output_buffer))

print_value(item, output_buffer) ==
    LET Literal(r, text) ==
            IF ~r.ok THEN r ELSE [p |-> Write(r.p, Append(text, Ch.nul)), ok |-> TRUE]
        Raw(r, text) ==
            IF ~r.ok THEN r ELSE [p |-> Write(r.p, Append(text, Ch.nul)), ok |-> TRUE]
        RawOf(text) == Raw(ensure(output_buffer, Len(text) + 1), text)
        Of(node) ==
            CASE node.type.kind = cJSON_NULL -> Literal(ensure(output_buffer, 5), LiteralNull)
              [] node.type.kind = cJSON_False -> Literal(ensure(output_buffer, 6), LiteralFalse)
              [] node.type.kind = cJSON_True -> Literal(ensure(output_buffer, 5), LiteralTrue)
              [] node.type.kind = cJSON_Number -> print_number(item, output_buffer)
              [] node.type.kind = cJSON_Raw ->
                   IF node.valuestring = NULL THEN [p |-> output_buffer, ok |-> FALSE]
                   ELSE RawOf(output_buffer.hooks.strs[node.valuestring])
              [] node.type.kind = cJSON_String -> print_string(item, output_buffer)
              [] node.type.kind = cJSON_Array -> print_array(item, output_buffer)
              [] node.type.kind = cJSON_Object -> print_object(item, output_buffer)
              [] OTHER -> [p |-> output_buffer, ok |-> FALSE]
    IN IF item = NULL THEN [p |-> output_buffer, ok |-> FALSE]
       ELSE Of(output_buffer.hooks.nodes[item])

\* memset(buffer, 0, sizeof(buffer)) and the fields print sets
NewPrintbuffer(hooks, buffer, length, format, noalloc) ==
    [buffer |-> buffer, bytes |-> <<>>, length |-> length, offset |-> 0,
     depth |-> 0, noalloc |-> noalloc, format |-> format, hooks |-> hooks,
     overrun |-> FALSE, undefined |-> FALSE]

\* the result of print: the heap, the block returned and the ghosts
print(h, item, format) ==
    LET Failed(p) ==
            [h |-> IF p.buffer # NULL THEN deallocateS(p.hooks, p.buffer) ELSE p.hooks,
             printed |-> NULL, overrun |-> p.overrun, undefined |-> p.undefined]
        \* hooks->reallocate(buffer->buffer, buffer->offset + 1)
        Shrunk(p) ==
            IF AllocFails(p.hooks) THEN Failed([p EXCEPT !.hooks = AfterAlloc(@)])
            ELSE [h |-> [AfterAlloc(p.hooks) EXCEPT
                           !.strs[p.buffer] = SubSeq(p.bytes, 1, p.offset)],
                  printed |-> p.buffer, overrun |-> p.overrun,
                  undefined |-> p.undefined]
        Valued(r) == IF ~r.ok THEN Failed(r.p) ELSE Shrunk(update_offset(r.p))
        Created(allocated) ==
            IF allocated.p = NULL
            THEN [h |-> allocated.h, printed |-> NULL, overrun |-> FALSE,
                  undefined |-> FALSE]
            ELSE Valued(print_value(item, NewPrintbuffer(allocated.h, allocated.p,
                                                         default_buffer_size, format,
                                                         FALSE)))
    IN Created(AllocString(h, <<>>))

cJSON_Print(h, item) == print(h, item, TRUE)
cJSON_PrintUnformatted(h, item) == print(h, item, FALSE)

\* buffer is the address of the caller's memory (NULL or not) and length its
\* capacity; the result is the value returned and the printbuffer as the
\* call leaves it, whose bytes are what the caller's memory holds
cJSON_PrintPreallocated(h, item, buffer, length, format) ==
    LET Valued(r) == [ret |-> r.ok, p |-> r.p]
    IN IF length < 0 \/ buffer = NULL
       THEN [ret |-> FALSE, p |-> NewPrintbuffer(h, buffer, 0, format, TRUE)]
       ELSE Valued(print_value(item, NewPrintbuffer(h, buffer, length, format, TRUE)))

---------------------------------------------------------------------------
(* cJSON_Compare *)

RECURSIVE cJSON_Compare(_, _, _, _)
RECURSIVE compare_elements(_, _, _, _)
RECURSIVE compare_members(_, _, _, _)

\* the for loop of the Array case from a_element, b_element on
compare_elements(h, a_element, b_element, case_sensitive) ==
    IF a_element # NULL /\ b_element # NULL
    THEN /\ cJSON_Compare(h, a_element, b_element, case_sensitive)
         /\ compare_elements(h, h.nodes[a_element].next, h.nodes[b_element].next,
                             case_sensitive)
    ELSE a_element = b_element

\* one cJSON_ArrayForEach of the Object case: the members from a_element
\* on are looked up in b
compare_members(h, a_element, b, case_sensitive) ==
    IF a_element = NULL THEN TRUE
    ELSE LET Found(b_element) ==
                 /\ b_element # NULL
                 /\ cJSON_Compare(h, a_element, b_element, case_sensitive)
         IN /\ Found(get_object_item(h, b, h.nodes[a_element].string, case_sensitive))
            /\ compare_members(h, h.nodes[a_element].next, b, case_sensitive)

cJSON_Compare(h, a, b, case_sensitive) ==
    IF a = NULL \/ b = NULL THEN FALSE
    ELSE IF h.nodes[a].type.kind # h.nodes[b].type.kind THEN FALSE
    ELSE IF h.nodes[a].type.kind \notin {cJSON_False, cJSON_True, cJSON_NULL,
                                         cJSON_Number, cJSON_String, cJSON_Raw,
                                         cJSON_Array, cJSON_Object} THEN FALSE
    ELSE IF a = b THEN TRUE
    ELSE CASE h.nodes[a].type.kind \in {cJSON_False, cJSON_True, cJSON_NULL} -> TRUE
           [] h.nodes[a].type.kind = cJSON_Number ->
                compare_double(h.nodes[a].valuedouble, h.nodes[b].valuedouble)
           [] h.nodes[a].type.kind \in {cJSON_String, cJSON_Raw} ->
                /\ h.nodes[a].valuestring # NULL
                /\ h.nodes[b].valuestring # NULL
                /\ StrEq(h.strs[h.nodes[a].valuestring], h.strs[h.nodes[b].valuestring])
           [] h.nodes[a].type.kind = cJSON_Array ->
                compare_elements(h, h.nodes[a].child, h.nodes[b].child, case_sensitive)
           [] h.nodes[a].type.kind = cJSON_Object ->
                /\ compare_members(h, h.nodes[a].child, b, case_sensitive)
                /\ compare_members(h, h.nodes[b].child, a, case_sensitive)

---------------------------------------------------------------------------
(* cJSON_Duplicate *)

\* depth at which cJSON_Duplicate_rec stops following children
\* (CJSON_CIRCULAR_LIMIT scaled down)
CJSON_CIRCULAR_LIMIT == 2

RECURSIVE cJSON_Duplicate_rec(_, _, _, _)
RECURSIVE Duplicate_children(_, _, _, _, _)

\* the fail label
Duplicate_fail(h, newitem) ==
    [h |-> IF newitem # NULL THEN cJSON_Delete(h, newitem) ELSE h, p |-> NULL]

\* the walk of the next chain: child is the child to copy, next the copy
\* made last (NULL before the first)
Duplicate_children(h, newitem, child, next, depth) ==
    IF child = NULL
    THEN [h |-> IF h.nodes[newitem].child # NULL
                THEN [h EXCEPT !.nodes[h.nodes[newitem].child].prev = next]
                ELSE h,
          p |-> newitem]
    ELSE IF depth >= CJSON_CIRCULAR_LIMIT THEN Duplicate_fail(h, newitem)
    ELSE LET Linked(r) ==
                 IF r.p = NULL THEN Duplicate_fail(r.h, newitem)
                 ELSE Duplicate_children(
                          IF next # NULL
                          THEN [r.h EXCEPT !.nodes[next].next = r.p,
                                           !.nodes[r.p].prev = next]
                          ELSE [r.h EXCEPT !.nodes[newitem].child = r.p],
                          newitem, r.h.nodes[child].next, r.p, depth)
         IN Linked(cJSON_Duplicate_rec(h, child, depth + 1, TRUE))

\* the copy that keeps the type word as it is
cJSON_Duplicate_rec_keeping_flags(h, item, depth, recurse) ==
    LET Walked(g, newitem) ==
            IF ~recurse THEN [h |-> g, p |-> newitem]
            ELSE Duplicate_children(g, newitem, g.nodes[item].child, NULL, depth)
        Keyed(g, newitem, dup) ==
            IF dup.p = NULL THEN Duplicate_fail(dup.h, newitem)
            ELSE Walked([dup.h EXCEPT !.nodes[newitem].string = dup.p], newitem)
        Named(g, newitem) ==
            IF g.nodes[item].string = NULL THEN Walked(g, newitem)
            ELSE IF g.nodes[item].type.StringIsConst
            THEN Keyed(g, newitem, [h |-> g, p |-> g.nodes[item].string])
            ELSE Keyed(g, newitem, cJSON_strdup(g, g.nodes[item].string))
        Held(g, newitem, dup) ==
            IF dup.p = NULL THEN Duplicate_fail(dup.h, newitem)
            ELSE Named([dup.h EXCEPT !.nodes[newitem].valuestring = dup.p], newitem)
        Valued(g, newitem) ==
            IF g.nodes[item].valuestring = NULL THEN Named(g, newitem)
            ELSE Held(g, newitem, cJSON_strdup(g, g.nodes[item].valuestring))
        Created(new) ==
            IF new.p = NULL THEN Duplicate_fail(new.h, NULL)
            ELSE Valued([new.h EXCEPT
                           !.nodes[new.p].type = h.nodes[item].type,
                           !.nodes[new.p].valueint = h.nodes[item].valueint,
                           !.nodes[new.p].valuedouble = h.nodes[item].valuedouble],
                        new.p)
    IN IF item = NULL THEN Duplicate_fail(h, NULL)
       ELSE Created(cJSON_New_Item(h))

cJSON_Duplicate_rec(h, item, depth, recurse) ==
    LET Walked(g, newitem) ==
            IF ~recurse THEN [h |-> g, p |-> newitem]
            ELSE Duplicate_children(g, newitem, g.nodes[item].child, NULL, depth)
        Keyed(g, newitem, dup) ==
            IF dup.p = NULL THEN Duplicate_fail(dup.h, newitem)
            ELSE Walked([dup.h EXCEPT !.nodes[newitem].string = dup.p], newitem)
        Named(g, newitem) ==
            IF g.nodes[item].string = NULL THEN Walked(g, newitem)
            ELSE IF g.nodes[item].type.StringIsConst
            THEN Keyed(g, newitem, [h |-> g, p |-> g.nodes[item].string])
            ELSE Keyed(g, newitem, cJSON_strdup(g, g.nodes[item].string))
        Held(g, newitem, dup) ==
            IF dup.p = NULL THEN Duplicate_fail(dup.h, newitem)
            ELSE Named([dup.h EXCEPT !.nodes[newitem].valuestring = dup.p], newitem)
        Valued(g, newitem) ==
            IF g.nodes[item].valuestring = NULL THEN Named(g, newitem)
            ELSE Held(g, newitem, cJSON_strdup(g, g.nodes[item].valuestring))
        Created(new) ==
            IF new.p = NULL THEN Duplicate_fail(new.h, NULL)
            ELSE Valued([new.h EXCEPT
                           !.nodes[new.p].type =
                               [h.nodes[item].type EXCEPT !.IsReference = FALSE],
                           !.nodes[new.p].valueint = h.nodes[item].valueint,
                           !.nodes[new.p].valuedouble = h.nodes[item].valuedouble],
                        new.p)
    IN IF item = NULL THEN Duplicate_fail(h, NULL)
       ELSE Created(cJSON_New_Item(h))

cJSON_Duplicate(h, item, recurse) == cJSON_Duplicate_rec(h, item, 0, recurse)

---------------------------------------------------------------------------
(* cJSON_Minify.  The text is rewritten in place: mem is the caller's      *)
(* memory with its nul byte, json the index of the byte read next and into *)
(* the index of the byte written next (both counted from 0).               *)

\* input[k]
Peek(m, k) == ByteAt(m.mem, m.json + k)

\* output[k] = c
Poke(m, k, c) == [m EXCEPT !.mem[m.into + k + 1] = c]

RECURSIVE skip_oneline_comment_loop(_)
skip_oneline_comment_loop(m) ==
    IF Peek(m, 0) = Ch.nul THEN m
    ELSE IF Peek(m, 0) = Ch.lf THEN [m EXCEPT !.json = @ + 1]
    ELSE skip_oneline_comment_loop([m EXCEPT !.json = @ + 1])

skip_oneline_comment(m) == skip_oneline_comment_loop([m EXCEPT !.json = @ + 2])

RECURSIVE skip_multiline_comment_loop(_)
skip_multiline_comment_loop(m) ==
    IF Peek(m, 0) = Ch.nul THEN m
    ELSE IF Peek(m, 0) = Ch.star /\ Peek(m, 1) = Ch.slash THEN [m EXCEPT !.json = @ + 2]
    ELSE skip_multiline_comment_loop([m EXCEPT !.json = @ + 1])

skip_multiline_comment(m) == skip_multiline_comment_loop([m EXCEPT !.json = @ + 2])

RECURSIVE minify_string_loop(_)
minify_string_loop(m) ==
    LET Stepped(copied) ==
            IF Peek(m, 0) = Ch.quote
            THEN [copied EXCEPT !.json = @ + 1, !.into = @ + 1]
            ELSE IF Peek(m, 0) = Ch.backslash /\ Peek(m, 1) = Ch.quote
            THEN minify_string_loop([Poke(copied, 1, Peek(m, 1)) EXCEPT
                                        !.json = @ + 2, !.into = @ + 2])
            ELSE minify_string_loop([copied EXCEPT !.json = @ + 1, !.into = @ + 1])
    IN IF Peek(m, 0) = Ch.nul THEN m
       ELSE Stepped(Poke(m, 0, Peek(m, 0)))

minify_string(m) ==
    minify_string_loop([Poke(m, 0, Peek(m, 0)) EXCEPT !.json = @ + 1, !.into = @ + 1])

\* the switch of cJSON_Minify that copies a slash that starts no comment
Minify_step_keeping_slash(m) ==
    CASE Peek(m, 0) \in {Ch.sp, Ch.tab, Ch.cr, Ch.lf} -> [m EXCEPT !.json = @ + 1]
      [] Peek(m, 0) = Ch.slash ->
           IF Peek(m, 1) = Ch.slash THEN skip_oneline_comment(m)
           ELSE IF Peek(m, 1) = Ch.star THEN skip_multiline_comment(m)
           ELSE [Poke(m, 0, Peek(m, 0)) EXCEPT !.json = @ + 1, !.into = @ + 1]
      [] Peek(m, 0) = Ch.quote -> minify_string(m)
      [] OTHER -> [Poke(m, 0, Peek(m, 0)) EXCEPT !.json = @ + 1, !.into = @ + 1]

\* one turn of the while loop of cJSON_Minify
Minify_step(m) ==
    CASE Peek(m, 0) \in {Ch.sp, Ch.tab, Ch.cr, Ch.lf} -> [m EXCEPT !.json = @ + 1]
      [] Peek(m, 0) = Ch.slash ->
           IF Peek(m, 1) = Ch.slash THEN skip_oneline_comment(m)
           ELSE IF Peek(m, 1) = Ch.star THEN skip_multiline_comment(m)
           ELSE [m EXCEPT !.json = @ + 1]
      [] Peek(m, 0) = Ch.quote -> minify_string(m)
      [] OTHER -> [Poke(m, 0, Peek(m, 0)) EXCEPT !.json = @ + 1, !.into = @ + 1]

RECURSIVE Minify_loop(_)
Minify_loop(m) ==
    IF Peek(m, 0) = Ch.nul THEN Poke(m, 0, Ch.nul)
    ELSE Minify_loop(Minify_step(m))

\* the caller's memory after cJSON_Minify(text): mem is that memory, the
\* nul byte that ends the text included
cJSON_Minify(text, mem) ==
    IF text = NULL THEN mem
    ELSE Minify_loop([mem |-> mem, json |-> 0, into |-> 0]).mem

---------------------------------------------------------------------------
(* Ghost views of the heap, used by the guards and the properties *)

Range(seq) == {seq[i] : i \in 1..Len(seq)}

RECURSIVE ChainFrom(_, _, _)
ChainFrom(h, first, fuel) ==
    IF first = NULL \/ fuel = 0 THEN <<>>
    ELSE <<first>> \o ChainFrom(h, h.nodes[first].next, fuel - 1)

\* the siblings found by following next from the first child
ChildList(h, parent) == ChainFrom(h, h.nodes[parent].child, Len(h.nodes))

\* what cJSON_Delete(item) is to free when item has no next sibling: the
\* nodes reached without passing through a reference node
RECURSIVE OwnedFrom(_, _, _)
OwnedFrom(h, item, fuel) ==
    IF item = NULL \/ fuel = 0 THEN {}
    ELSE {item} \cup
         (IF h.nodes[item].type.IsReference THEN {}
          ELSE UNION {OwnedFrom(h, c, fuel - 1) : c \in Range(ChildList(h, item))})

OwnedNodes(h, item) == OwnedFrom(h, item, Len(h.nodes) + 1)

OwnedStrings(h, item) ==
    {h.nodes[n].valuestring : n \in {m \in OwnedNodes(h, item) :
          ~h.nodes[m].type.IsReference /\ h.nodes[m].valuestring # NULL}}
    \cup
    {h.nodes[n].string : n \in {m \in OwnedNodes(h, item) :
          ~h.nodes[m].type.StringIsConst /\ h.nodes[m].string # NULL}}

\* the nodes reached through child and next links, references included
RECURSIVE ReachFrom(_, _, _)
ReachFrom(h, item, fuel) ==
    IF item = NULL \/ fuel = 0 THEN {}
    ELSE {item} \cup
         UNION {ReachFrom(h, c, fuel - 1) : c \in Range(ChildList(h, item))}

Reachable(h, item) == ReachFrom(h, item, Len(h.nodes) + 1)

\* a node that is in no list and that no node owns: what a factory or a
\* detach hands the caller (a reference container may still point at it)
Unlinked(h, item) ==
    /\ item \in h.liveN
    /\ h.nodes[item].prev = NULL
    /\ h.nodes[item].next = NULL
    /\ \A n \in h.liveN :
         /\ h.nodes[n].next # item
         /\ h.nodes[n].child = item => h.nodes[n].type.IsReference

\* a parent whose child list can be walked without touching freed memory
Walkable(h, parent) ==
    /\ parent \in h.liveN
    /\ Range(ChildList(h, parent)) \subseteq h.liveN

\* the sibling-list invariant of one container
SiblingListOK(h, parent) ==
    LET list == ChildList(h, parent)
        n == Len(list)
    IN n = 0 \/
       /\ h.nodes[list[1]].prev = list[n]
       /\ h.nodes[list[n]].next = NULL
       /\ \A i \in 2..n : /\ h.nodes[list[i]].prev # NULL
                          /\ h.nodes[h.nodes[list[i]].prev].next = list[i]
       /\ \A i \in 1..(n - 1) : h.nodes[h.nodes[list[i]].next].prev = list[i]

Containers(h) ==
    {n \in h.liveN : h.nodes[n].type.kind \in {cJSON_Array, cJSON_Object}}

---------------------------------------------------------------------------
(* The client of the tree interface.  It holds every pointer a call has    *)
(* returned, builds nodes with the factories and mutates them through the  *)
(* public functions.  The texts it passes are its own (static) memory.     *)

TreeHeap ==
    LET a == StaticString(EmptyHeap, <<Ch.k>>)
        b == StaticString(a.h, <<Ch.K>>)
        c == StaticString(b.h, <<Ch.v>>)
    IN c.h

TextAt(bytes) == CHOOSE p \in 1..Len(TreeHeap.strs) : TreeHeap.strs[p] = bytes

\* the key the client gives its items, and the keys it looks up
NewKeys == {TextAt(<<Ch.k>>)}
Keys == {TextAt(<<Ch.k>>), TextAt(<<Ch.K>>)}
Payload == TextAt(<<Ch.v>>)

NoError == [json |-> NULL, position |-> 0]

\* the record of the last call: its name, arguments and result
Did(op, ret) ==
    [op |-> op, ret |-> ret, left |-> last.left - 1, parent |-> NULL,
     ownN |-> {}, ownS |-> {}, liveN |-> {}, liveS |-> {}]

\* the same for a call that frees victim, with what victim owned and what
\* was allocated when the call was made
DidFree(op, parent, ret, h, victim) ==
    [op |-> op, ret |-> ret, left |-> last.left - 1, parent |-> parent,
     ownN |-> OwnedNodes(h, victim), ownS |-> OwnedStrings(h, victim),
     liveN |-> h.liveN, liveS |-> h.liveS]

CanCreate == Len(heap.nodes) < MaxNodes
CanCall == last.left > 0

\* the heaps one call of a factory can give
Make(h, factory) ==
    CASE factory = "cJSON_CreateNull" -> {cJSON_CreateNull(h).h}
      [] factory = "cJSON_CreateArray" -> {cJSON_CreateArray(h).h}
      [] factory = "cJSON_CreateObject" -> {cJSON_CreateObject(h).h}
      [] factory = "cJSON_CreateString" ->
           {cJSON_CreateString(h, Payload).h}
      [] factory = "cJSON_CreateStringReference" ->
           {cJSON_CreateStringReference(h, Payload).h}
      [] factory = "cJSON_CreateArrayReference" ->
           {cJSON_CreateArrayReference(h, child).h : child \in h.liveN}
      [] factory = "cJSON_CreateObjectReference" ->
           {cJSON_CreateObjectReference(h, child).h : child \in h.liveN}

\* the heaps a client gets from at most n calls of the factories.  The
\* calls are independent of each other, so they are made in the order of
\* the list: another order gives the same nodes at other addresses.
RECURSIVE Built(_, _, _, _)
Built(h, factories, from, n) ==
    {h} \cup
    (IF n = 0 THEN {}
     ELSE UNION {UNION {Built(made, factories, f, n - 1) : made \in Make(h, factories[f])}
                   : f \in from..Len(factories)})

ListFactories == <<"cJSON_CreateNull", "cJSON_CreateArray", "cJSON_CreateObject",
                   "cJSON_CreateArrayReference">>

TreeFactories == <<"cJSON_CreateString", "cJSON_CreateArray", "cJSON_CreateObject">>

Started(calls) ==
    /\ last = [op |-> "none", ret |-> FALSE, left |-> calls, parent |-> NULL,
               ownN |-> {}, ownS |-> {}, liveN |-> {}, liveS |-> {}]
    /\ json = <<>>
    /\ global_error = NoError

\* a client with fewer nodes is a client that leaves some of its nodes alone
ListInit ==
    /\ heap \in {h \in Built(TreeHeap, ListFactories, 1, MaxNodes) : Len(h.nodes) = MaxNodes}
    /\ Started(MaxListCalls)

TreeInit == heap \in Built(TreeHeap, TreeFactories, 1, MaxNodes) /\ Started(MaxTreeCalls)

\* parent can take item: item is unlinked and parent is not inside it
CanTake(parent, item) ==
    /\ Walkable(heap, parent)
    /\ Unlinked(heap, item)
    /\ parent \notin Reachable(heap, item)

\* the containers the client mutates: a reference container borrows the list
\* of another owner, so the client does not change it
Arrays == {n \in heap.liveN : /\ heap.nodes[n].type.kind = cJSON_Array
                              /\ ~heap.nodes[n].type.IsReference}
Objects == {n \in heap.liveN : /\ heap.nodes[n].type.kind = cJSON_Object
                               /\ ~heap.nodes[n].type.IsReference}

Mutate(op, parent, item, r) ==
    /\ CanCall
    /\ heap' = r.h
    /\ last' = Did(op, r.ret)
    /\ UNCHANGED <<json, global_error>>

DoAddItemToArray ==
    \E array \in Arrays, item \in heap.liveN :
      /\ CanTake(array, item)
      /\ Mutate("cJSON_AddItemToArray", array, item,
                add_item_to_array(heap, array, item))

DoAddItemToObject ==
    \E object \in Objects, item \in heap.liveN, string \in NewKeys :
      /\ CanTake(object, item)
      /\ Mutate("cJSON_AddItemToObject", object, item,
                add_item_to_object(heap, object, string, item, FALSE))

DoAddItemToObjectCS ==
    \E object \in Objects, item \in heap.liveN, string \in NewKeys :
      /\ CanTake(object, item)
      /\ Mutate("cJSON_AddItemToObjectCS", object, item,
                add_item_to_object(heap, object, string, item, TRUE))

DoAddItemReferenceToArray ==
    \E array \in Arrays, item \in heap.liveN :
      /\ CanCreate
      /\ Walkable(heap, array)
      /\ Mutate("cJSON_AddItemReferenceToArray", array, item,
                cJSON_AddItemReferenceToArray(heap, array, item))

DoAddItemReferenceToObject ==
    \E object \in Objects, item \in heap.liveN, string \in NewKeys :
      /\ CanCreate
      /\ Walkable(heap, object)
      /\ Mutate("cJSON_AddItemReferenceToObject", object, item,
                cJSON_AddItemReferenceToObject(heap, object, string, item))

DoInsertItemInArray ==
    \E array \in Arrays, item \in heap.liveN :
      \E which \in 0..Len(ChildList(heap, array)) :
        /\ CanTake(array, item)
        /\ Mutate("cJSON_InsertItemInArray", array, item,
                  cJSON_InsertItemInArray(heap, array, which, item))

Detach(op, parent, r) ==
    /\ CanCall
    /\ heap' = r.h
    /\ last' = Did(op, r.p # NULL)
    /\ UNCHANGED <<json, global_error>>

DoDetachItemViaPointer ==
    \E parent \in Arrays \cup Objects :
      /\ Walkable(heap, parent)
      /\ \E item \in Range(ChildList(heap, parent)) :
           Detach("cJSON_DetachItemViaPointer", parent,
                  cJSON_DetachItemViaPointer(heap, parent, item))

DoDetachItemFromArray ==
    \E array \in Arrays :
      /\ Walkable(heap, array)
      /\ \E which \in 0..Len(ChildList(heap, array)) :
           Detach("cJSON_DetachItemFromArray", array,
                  cJSON_DetachItemFromArray(heap, array, which))

DoDetachItemFromObject ==
    \E object \in Objects, string \in NewKeys :
      /\ Walkable(heap, object)
      /\ Detach("cJSON_DetachItemFromObject", object,
                cJSON_DetachItemFromObject(heap, object, string))

DoDetachItemFromObjectCaseSensitive ==
    \E object \in Objects, string \in NewKeys :
      /\ Walkable(heap, object)
      /\ Detach("cJSON_DetachItemFromObjectCaseSensitive", object,
                cJSON_DetachItemFromObjectCaseSensitive(heap, object, string))

Free(op, parent, victim, ret, h, after) ==
    /\ CanCall
    /\ heap' = after
    /\ last' = DidFree(op, parent, ret, h, victim)
    /\ UNCHANGED <<json, global_error>>

DoDelete ==
    \E item \in heap.liveN :
      /\ Unlinked(heap, item)
      /\ Free("cJSON_Delete", NULL, item, TRUE, heap,
              cJSON_Delete(heap, item))

DoDeleteItemFromArray ==
    \E array \in Arrays :
      /\ Walkable(heap, array)
      /\ \E which \in 0..Len(ChildList(heap, array)) :
           Free("cJSON_DeleteItemFromArray", array,
                get_array_item(heap, array, which),
                get_array_item(heap, array, which) # NULL, heap,
                cJSON_DeleteItemFromArray(heap, array, which))

DoDeleteItemFromObject ==
    \E object \in Objects, string \in Keys :
      /\ Walkable(heap, object)
      /\ Free("cJSON_DeleteItemFromObject", object,
              get_object_item(heap, object, string, FALSE),
              get_object_item(heap, object, string, FALSE) # NULL, heap,
              cJSON_DeleteItemFromObject(heap, object, string))

DoDeleteItemFromObjectCaseSensitive ==
    \E object \in Objects, string \in Keys :
      /\ Walkable(heap, object)
      /\ Free("cJSON_DeleteItemFromObjectCaseSensitive", object,
              get_object_item(heap, object, string, TRUE),
              get_object_item(heap, object, string, TRUE) # NULL, heap,
              cJSON_DeleteItemFromObjectCaseSensitive(heap, object, string))

Replace(op, parent, victim, r) ==
    Free(op, parent, IF r.ret THEN victim ELSE NULL, r.ret, heap, r.h)

DoReplaceItemViaPointer ==
    \E parent \in Arrays \cup Objects, replacement \in heap.liveN :
      /\ CanTake(parent, replacement)
      /\ \E item \in Range(ChildList(heap, parent)) :
           Replace("cJSON_ReplaceItemViaPointer", parent, item,
                   cJSON_ReplaceItemViaPointer(heap, parent, item, replacement))

DoReplaceItemInArray ==
    \E array \in Arrays, newitem \in heap.liveN :
      /\ CanTake(array, newitem)
      /\ \E which \in 0..Len(ChildList(heap, array)) :
           Replace("cJSON_ReplaceItemInArray", array,
                   get_array_item(heap, array, which),
                   cJSON_ReplaceItemInArray(heap, array, which, newitem))

DoReplaceItemInObject ==
    \E object \in Objects, newitem \in heap.liveN, string \in NewKeys :
      /\ CanTake(object, newitem)
      /\ Replace("cJSON_ReplaceItemInObject", object,
                 get_object_item(heap, object, string, FALSE),
                 replace_item_in_object(heap, object, string, newitem, FALSE))

DoReplaceItemInObjectCaseSensitive ==
    \E object \in Objects, newitem \in heap.liveN, string \in NewKeys :
      /\ CanTake(object, newitem)
      /\ Replace("cJSON_ReplaceItemInObjectCaseSensitive", object,
                 get_object_item(heap, object, string, TRUE),
                 replace_item_in_object(heap, object, string, newitem, TRUE))

\* the mutations of the sibling lists
NextList ==
    \/ DoAddItemToArray
    \/ DoAddItemToObject
    \/ DoInsertItemInArray
    \/ DoDetachItemViaPointer
    \/ DoDetachItemFromArray
    \/ DoDetachItemFromObject
    \/ DoDetachItemFromObjectCaseSensitive
    \/ DoReplaceItemViaPointer
    \/ DoReplaceItemInArray
    \/ DoReplaceItemInObject
    \/ DoReplaceItemInObjectCaseSensitive

SpecList == ListInit /\ [][NextList]_vars

\* building trees with reference children and destroying them
NextTree ==
    \/ DoAddItemToArray
    \/ DoAddItemToObject
    \/ DoAddItemToObjectCS
    \/ DoAddItemReferenceToArray
    \/ DoAddItemReferenceToObject
    \/ DoDetachItemViaPointer
    \/ DoDelete
    \/ DoDeleteItemFromArray
    \/ DoDeleteItemFromObject
    \/ DoDeleteItemFromObjectCaseSensitive

SpecTree == TreeInit /\ [][NextTree]_vars

---------------------------------------------------------------------------
(* The sibling lists *)

\* C1 as it is stated: after the list mutations, the child list of every
\* Array/Object has head->prev at the tail, a null next at the tail and
\* consistent prev/next links between neighbours.
C1_EveryContainer ==
    last.op # "none" => \A n \in Containers(heap) : SiblingListOK(heap, n)

\* C1, amended: the same for every Array/Object that is not a reference
\* container (whose list belongs to another owner), after mutations made
\* through the owning containers.
C1_OwnedContainers ==
    \A n \in Containers(heap) :
      ~heap.nodes[n].type.IsReference => SiblingListOK(heap, n)

\* an insertion has just made a list with an interior sibling
C1_Witness ==
    /\ last.op = "cJSON_InsertItemInArray"
    /\ last.ret
    /\ \E n \in Containers(heap) :
         /\ ~heap.nodes[n].type.IsReference
         /\ Len(ChildList(heap, n)) >= 3

---------------------------------------------------------------------------
(* Destruction *)

DeleteCalls == {"cJSON_Delete", "cJSON_DeleteItemFromArray",
                "cJSON_DeleteItemFromObject", "cJSON_DeleteItemFromObjectCaseSensitive"}

DeleteItemCalls == DeleteCalls \ {"cJSON_Delete"}

\* what the last call has freed
FreedNodes == last.liveN \ heap.liveN
FreedStrings == last.liveS \ heap.liveS

\* the original of a reference is still allocated, and so are its payload
\* and its children if they were when the call was made
Intact(h, o) ==
    /\ o \in h.liveN
    /\ h.nodes[o].valuestring \in last.liveS => h.nodes[o].valuestring \in h.liveS
    /\ Range(ChildList(h, o)) \cap last.liveN \subseteq h.liveN

\* C4 as it is stated: cJSON_Delete frees nothing through a node flagged
\* IsReference, and after the delete of a tree that holds a reference made by
\* cJSON_AddItemReferenceToArray/ToObject the original, its payload and its
\* children are still allocated.
C4_OriginalsSurvive ==
    last.op \in DeleteCalls =>
      \A ro \in heap.origin :
        (ro[1] \in last.ownN /\ ro[2] \in last.liveN) => Intact(heap, ro[2])

\* the same, but for what the deleted tree owns itself
Spared(h, o) ==
    /\ o \in h.liveN
    /\ h.nodes[o].valuestring \in last.liveS \ last.ownS
         => h.nodes[o].valuestring \in h.liveS
    /\ (Range(ChildList(h, o)) \cap last.liveN) \ last.ownN \subseteq h.liveN

\* C4, amended: cJSON_Delete frees only what the deleted tree owns, which is
\* what is reached without passing through a node flagged IsReference; the
\* original of a reference held by the deleted tree, its payload and its
\* children are still allocated, except those that the deleted tree owns
\* itself.
C4_ReferencesSpared ==
    last.op \in DeleteCalls =>
      /\ ~heap.fault
      /\ FreedNodes \subseteq last.ownN
      /\ FreedStrings \subseteq last.ownS
      /\ \A ro \in heap.origin :
           (ro[1] \in last.ownN /\ ro[2] \in last.liveN \ last.ownN)
             => Spared(heap, ro[2])

\* a tree with a reference child was deleted and the original, a node with a
\* payload, is still there
C4_Witness ==
    /\ last.op = "cJSON_Delete"
    /\ Cardinality(last.ownN) >= 2
    /\ \E ro \in heap.origin :
         /\ ro[1] \in last.ownN
         /\ ro[2] \in heap.liveN
         /\ heap.nodes[ro[2]].valuestring \in heap.liveS

\* C5 as it is stated: after a delete-item call that found its child, no
\* node of the child's owned subtree is reachable from the parent, and each
\* of these nodes, each owned payload and each non-constant key was freed
\* exactly once.
C5_Unreachable ==
    (last.op \in DeleteItemCalls /\ last.ret) =>
      /\ ~heap.fault
      /\ FreedNodes = last.ownN
      /\ FreedStrings = last.ownS
      /\ Reachable(heap, last.parent) \cap last.ownN = {}

\* C5, amended: the same, with the parent no longer owning any node of the
\* subtree (a reference node that survives in the parent may still point at
\* the freed nodes).
C5_Disowned ==
    (last.op \in DeleteItemCalls /\ last.ret) =>
      /\ ~heap.fault
      /\ FreedNodes = last.ownN
      /\ FreedStrings = last.ownS
      /\ OwnedNodes(heap, last.parent) \cap last.ownN = {}

\* a keyed child with a subtree of its own was deleted from an object
C5_Witness ==
    /\ last.op = "cJSON_DeleteItemFromObject"
    /\ last.ret
    /\ Cardinality(last.ownN) >= 2
    /\ last.ownS # {}

---------------------------------------------------------------------------
(* The client of the parser.  json is the text in its memory, which a nul  *)
(* byte follows as in every C string; the client writes the text, parses   *)
(* it once and, if it got a tree, deletes it.                              *)

\* the address of the client's memory
Input == 1

Memory(text) == Append(text, Ch.nul)

\* the bytes the client writes one by one
Alphabet == {Ch.nul, Ch.sp, Ch.lbracket, Ch.rbracket, Ch.quote, Ch.comma,
             Ch.zero + 1, Ch.backslash}

Key == <<Ch.quote, Ch.k, Ch.quote, Ch.colon>>

\* arrays, or objects, nested n deep
NestedArrays(n) == Repeat(<<Ch.lbracket>>, n) \o Repeat(<<Ch.rbracket>>, n)
NestedObjects(n) ==
    <<Ch.lbrace>> \o Repeat(Key \o <<Ch.lbrace>>, n - 1) \o Repeat(<<Ch.rbrace>>, n)

\* {"k":"v" ,}
TrailingComma ==
    <<Ch.lbrace>> \o Key \o <<Ch.quote, Ch.v, Ch.quote, Ch.sp, Ch.comma, Ch.rbrace>>

\* {"k":[-1e1,null]}
Mixed ==
    <<Ch.lbrace>> \o Key
    \o <<Ch.lbracket, Ch.minus, Ch.zero + 1, Ch.e, Ch.zero + 1, Ch.comma>>
    \o LiteralNull \o <<Ch.rbracket, Ch.rbrace>>

\* "é"
Escaped == <<Ch.quote, Ch.backslash, Ch.u, Ch.zero, Ch.zero, Ch.e, Ch.nine, Ch.quote>>

\* the texts the client may start from instead of writing byte by byte
Texts == {<<>>, TrailingComma, Mixed, Escaped, LiteralTrue, LiteralFalse,
          UTF8_BOM \o <<Ch.zero + 1>>,
          NestedArrays(CJSON_NESTING_LIMIT), NestedArrays(CJSON_NESTING_LIMIT + 1),
          NestedObjects(CJSON_NESTING_LIMIT), NestedObjects(CJSON_NESTING_LIMIT + 1)}

NotCalled == [op |-> "none", length |-> 0, strict |-> FALSE, requested |-> FALSE,
              fuel |-> 0, ret |-> NULL, end |-> NullPointer, offset |-> 0,
              oob |-> FALSE]

ParseInit ==
    /\ heap = EmptyHeap
    /\ last = NotCalled
    /\ json \in Texts
    /\ global_error = NoError

\* the allocations a parse makes when none of them fails
Allocations(content, buffer_length, require_null_terminated) ==
    1000 - cJSON_ParseWithLengthOpts([EmptyHeap EXCEPT !.fuel = 1000], Input, content,
                                     buffer_length, TRUE,
                                     require_null_terminated).h.fuel

Parsed(op, buffer_length, return_parse_end, require_null_terminated, fuel, r) ==
    /\ heap' = r.h
    /\ global_error' = r.global_error
    /\ last' = [op |-> op, length |-> buffer_length,
                strict |-> require_null_terminated, requested |-> return_parse_end,
                fuel |-> fuel, ret |-> r.item, end |-> r.return_parse_end,
                offset |-> r.offset, oob |-> r.oob]
    /\ UNCHANGED json

AppendByte ==
    /\ last.op = "none"
    /\ Len(json) < MaxLen
    /\ \E c \in Alphabet : json' = Append(json, c)
    /\ UNCHANGED <<heap, last, global_error>>

\* the caller gives a length: any part of its memory, the nul byte included
DoParseWithLengthOpts ==
    /\ last.op = "none"
    /\ \E buffer_length \in 0..Len(Memory(json)), require_null_terminated \in BOOLEAN :
         \E fuel \in 0..Allocations(Memory(json), buffer_length, require_null_terminated) :
            Parsed("cJSON_ParseWithLengthOpts", buffer_length, TRUE,
                   require_null_terminated, fuel,
                   cJSON_ParseWithLengthOpts([heap EXCEPT !.fuel = fuel], Input,
                                             Memory(json), buffer_length, TRUE,
                                             require_null_terminated))

DoParseWithOpts ==
    /\ last.op = "none"
    /\ \E return_parse_end \in BOOLEAN, require_null_terminated \in BOOLEAN :
         Parsed("cJSON_ParseWithOpts", strlen(Memory(json)) + 1, return_parse_end,
                require_null_terminated, 0,
                cJSON_ParseWithOpts(heap, global_error, Input, Memory(json),
                                    return_parse_end, require_null_terminated))

ParseCalls == {"cJSON_ParseWithLengthOpts", "cJSON_ParseWithOpts"}

\* the client deletes the tree it got
DoDeleteParsed ==
    /\ last.op \in ParseCalls
    /\ last.ret # NULL
    /\ heap' = cJSON_Delete(heap, last.ret)
    /\ last' = [last EXCEPT !.op = "cJSON_Delete"]
    /\ UNCHANGED <<json, global_error>>

NextParse ==
    \/ AppendByte
    \/ DoParseWithLengthOpts
    \/ DoParseWithOpts
    \/ DoDeleteParsed

SpecParse == ParseInit /\ [][NextParse]_vars

\* the part of the memory the call was given
Given == SubSeq(Memory(json), 1, last.length)

\* the call was made and no allocation of it failed
ParsedInFull == last.op \in ParseCalls /\ last.fuel = 0

---------------------------------------------------------------------------
(* Failed parses *)

\* C3: when a parse returns null, whatever made it fail, nothing it
\* allocated is live any more (root, items, keys, payloads, the scratch
\* block of parse_number) and nothing was freed twice.
C3_FailedParseFreesAll ==
    (last.op \in ParseCalls /\ last.ret = NULL) =>
        /\ heap.liveN = {}
        /\ heap.liveS = {}
        /\ ~heap.fault

\* a parse that failed on its sixth allocation, with items, a key and the
\* scratch block behind it
C3_Witness ==
    /\ last.op = "cJSON_ParseWithLengthOpts"
    /\ last.ret = NULL
    /\ last.fuel = 6
    /\ json = Mixed
    /\ Len(heap.nodes) >= 3
    /\ Len(heap.strs) >= 1

---------------------------------------------------------------------------
(* The nesting limit *)

\* how deep the arrays and objects of a sibling list nest
RECURSIVE Nesting(_, _)
Nesting(h, n) ==
    IF n = NULL THEN 0
    ELSE Max(IF h.nodes[n].type.kind \in {cJSON_Array, cJSON_Object}
             THEN 1 + Nesting(h, h.nodes[n].child) ELSE 0,
             Nesting(h, h.nodes[n].next))

Openers(n) == Repeat(<<Ch.lbracket>>, n)

\* the whole text was given, with its nul byte where the call asks for one
GivenWhole == last.length >= Len(json) /\ (last.strict => last.length > Len(json))

\* C6: with the nesting limit L no parse gives a tree nested deeper than L
\* and a text nested L + 1 deep fails; a text nested exactly L deep
\* succeeds; for a text that begins with L + 1 '[' the recorded error
\* offset is L.
C6_NestingLimit ==
    last.op \in ParseCalls =>
        /\ last.ret # NULL => Nesting(heap, last.ret) <= CJSON_NESTING_LIMIT
        /\ (/\ json \in {NestedArrays(CJSON_NESTING_LIMIT + 1),
                         NestedObjects(CJSON_NESTING_LIMIT + 1)}
            /\ GivenWhole) => last.ret = NULL
        /\ (/\ json \in {NestedArrays(CJSON_NESTING_LIMIT),
                         NestedObjects(CJSON_NESTING_LIMIT)}
            /\ GivenWhole
            /\ last.fuel = 0)
           => last.ret # NULL /\ Nesting(heap, last.ret) = CJSON_NESTING_LIMIT
        /\ (/\ last.length > CJSON_NESTING_LIMIT
            /\ SubSeq(Given, 1, CJSON_NESTING_LIMIT + 1) = Openers(CJSON_NESTING_LIMIT + 1)
            /\ last.fuel = 0)
           => /\ last.ret = NULL
              /\ global_error = Pointer(Input, CJSON_NESTING_LIMIT)

\* L + 1 openers were parsed and the error is recorded at offset L
C6_Witness ==
    /\ last.op \in ParseCalls
    /\ last.fuel = 0
    /\ json = NestedArrays(CJSON_NESTING_LIMIT + 1)
    /\ last.length = Len(json)
    /\ last.ret = NULL
    /\ global_error.position = CJSON_NESTING_LIMIT

---------------------------------------------------------------------------
(* Reads *)

\* C7: a parse that was given a length reads no byte at an index that is
\* not below that length, whatever the content and the length, and
\* whatever the place the given part ends at.
C7_ReadsBelowLength ==
    last.op = "cJSON_ParseWithLengthOpts" => ~last.oob

\* the given part ended inside the \u sequence of a string
C7_Witness ==
    /\ last.op = "cJSON_ParseWithLengthOpts"
    /\ json = Escaped
    /\ last.length = 5
    /\ last.ret = NULL
    /\ ~last.oob

---------------------------------------------------------------------------
(* Termination by a nul byte *)

\* the given part parsed without require_null_terminated: whether it holds
\* a value, and where the value ends
Loose(content) ==
    cJSON_ParseWithLengthOpts(EmptyHeap, Input, content, last.length, TRUE, FALSE)

\* the bytes of the given part from an offset on
Behind(offset) == SubSeq(Given, offset + 1, last.length)

IsWhitespace(c) == c <= Ch.sp

\* the given part with one of its bytes replaced
Replaced(i, c) == [Given EXCEPT ![i] = c]

\* C8: with require_null_terminated a parse fails when a byte above 0x20
\* follows the value in the buffer, and succeeds when only whitespace and
\* then a nul byte follow it; without the flag the bytes behind the value
\* do not bear on success.
C8_NulTerminated ==
    (ParsedInFull /\ Loose(Given).item # NULL) =>
        LET behind == Behind(Loose(Given).offset)
        IN /\ (last.strict /\ \E i \in 1..Len(behind) : ~IsWhitespace(behind[i]))
              => last.ret = NULL
           /\ (/\ last.strict
               /\ behind # <<>>
               /\ \A i \in 1..Len(behind) : IsWhitespace(behind[i])
               /\ behind[Len(behind)] = Ch.nul)
              => last.ret # NULL
           /\ ~last.strict =>
                /\ last.ret # NULL
                /\ \A i \in (Loose(Given).offset + 1)..last.length :
                     \A c \in Alphabet : Loose(Replaced(i, c)).item # NULL

\* a value, a space and the nul byte were parsed with require_null_terminated
C8_Witness ==
    /\ last.op = "cJSON_ParseWithLengthOpts"
    /\ last.strict
    /\ last.fuel = 0
    /\ json = <<Ch.zero + 1, Ch.sp>>
    /\ last.length = 3
    /\ last.ret # NULL

---------------------------------------------------------------------------
(* The error position *)

\* C9: an object in which the closing '}' follows a comma is rejected and
\* the recorded error offset is the offset of that '}': offset 10 for
\* {"k":"v" ,} parsed with require_null_terminated.
C9_ErrorAtBrace ==
    (/\ ParsedInFull
     /\ json = TrailingComma
     /\ last.strict
     /\ last.length = Len(json) + 1)
    => /\ last.ret = NULL
       /\ cJSON_GetErrorPtr(global_error) = Pointer(Input, Len(json) - 1)

\* C10 as stated: after a failed parse of a buffer that is not null the
\* error slot holds the input and the offset the parser stopped at,
\* cJSON_GetErrorPtr gives that address and so does the parse end if it was
\* asked for; after a successful parse the parse end is the final cursor.
C10_ErrorAtCursor ==
    last.op \in ParseCalls =>
        /\ last.ret = NULL =>
             /\ global_error = [json |-> Input, position |-> last.offset]
             /\ cJSON_GetErrorPtr(global_error) = Pointer(Input, last.offset)
             /\ last.requested => last.end = Pointer(Input, last.offset)
        /\ (last.ret # NULL /\ last.requested) => last.end = Pointer(Input, last.offset)

\* the offset the fail label records for a cursor: the cursor while it is
\* inside the buffer, the last byte of the buffer otherwise
Recorded(offset, length) ==
    IF offset < length THEN offset ELSE IF length > 0 THEN length - 1 ELSE 0

\* C10, amended: the offset held by the error slot, given by
\* cJSON_GetErrorPtr and by the parse end of a failed parse is the offset
\* the parser stopped at only while that offset is below the length of the
\* buffer, and the offset of the last byte of the buffer otherwise.
C10_ErrorRecorded ==
    last.op \in ParseCalls =>
        /\ last.ret = NULL =>
             /\ global_error = [json |-> Input,
                                position |-> Recorded(last.offset, last.length)]
             /\ cJSON_GetErrorPtr(global_error)
                  = Pointer(Input, Recorded(last.offset, last.length))
             /\ last.requested
                  => last.end = Pointer(Input, Recorded(last.offset, last.length))
        /\ (last.ret # NULL /\ last.requested) => last.end = Pointer(Input, last.offset)

\* a parse failed with its cursor at the end of the buffer
C10_Witness ==
    /\ last.op \in ParseCalls
    /\ last.ret = NULL
    /\ last.requested
    /\ last.length > 0
    /\ last.offset >= last.length
    /\ last.end = Pointer(Input, last.length - 1)

\* C28: after every failed parse of a buffer that is not null and holds at
\* least one byte, the offset recorded in the error slot, and in the parse
\* end if it was asked for, is below the length of the buffer: both point
\* at a byte of the buffer.
C28_ErrorInsideBuffer ==
    (last.op \in ParseCalls /\ last.ret = NULL /\ last.length >= 1) =>
        /\ global_error.json = Input
        /\ global_error.position \in 0..(last.length - 1)
        /\ cJSON_GetErrorPtr(global_error).position < last.length
        /\ last.requested => /\ last.end.json = Input
                             /\ last.end.position \in 0..(last.length - 1)

\* a parse with a length failed with its cursor behind the last byte
C28_Witness ==
    /\ last.op = "cJSON_ParseWithLengthOpts"
    /\ last.ret = NULL
    /\ last.length >= 2
    /\ last.offset >= last.length
    /\ global_error = Pointer(Input, last.length - 1)


---------------------------------------------------------------------------
(* The client of the serializer.  It builds one tree with the factories,   *)
(* prints it, parses the text it got and compares the parsed tree with the *)
(* tree it built.                                                          *)

\* children a container of the client gets at most
MaxKids == 2

\* the trees as the client thinks of them: a kind, a number, a text and
\* the children, each child under a key or (keyed false) under none
Tree(kind, num, str, kids) ==
    [kind |-> kind, num |-> num, str |-> str, kids |-> kids, borrowed |-> FALSE]

Leaf(kind) == Tree(kind, Zero, <<>>, <<>>)
Number(num) == Tree(cJSON_Number, num, <<>>, <<>>)
String(str) == Tree(cJSON_String, Zero, str, <<>>)
Member(key, value) == [key |-> key, keyed |-> TRUE, value |-> value]
Element(value) == [key |-> <<>>, keyed |-> FALSE, value |-> value]

\* 1, -1.5, 1e+20 and an infinity; "a" and a text that is one quote
Scalars ==
    {Leaf(cJSON_NULL), Number(Canonical(1, 0)), Number(Canonical(-15, -1)),
     String(<<Ch.a>>)}
Leaves ==
    Scalars \cup {Leaf(cJSON_True), Leaf(cJSON_False), Number(Canonical(1, 20)),
                  Number(Infinity), String(<<Ch.quote>>)}

KeyTexts == {<<Ch.k>>, <<Ch.K>>}

SeqsUpTo(S, n) == UNION {[1..k -> S] : k \in 0..n}

ArraysOf(values) ==
    {Tree(cJSON_Array, Zero, <<>>, [i \in DOMAIN kids |-> Element(kids[i])]) :
        kids \in SeqsUpTo(values, MaxKids)}

ObjectsOf(values) ==
    {Tree(cJSON_Object, Zero, <<>>, kids) :
        kids \in SeqsUpTo({Member(key, value) : key \in KeyTexts, value \in values},
                          MaxKids)}

\* containers of the kind nested n deep, the innermost holding a number
RECURSIVE NestedTree(_, _)
NestedTree(kind, n) ==
    Tree(kind, Zero, <<>>,
         <<IF kind = cJSON_Array
           THEN Element(IF n = 1 THEN Number(Canonical(1, 0))
                        ELSE NestedTree(kind, n - 1))
           ELSE Member(<<Ch.k>>, IF n = 1 THEN Number(Canonical(1, 0))
                                 ELSE NestedTree(kind, n - 1))>>)

\* cJSON_CreateStringReference(NULL), and an object that got a child from
\* cJSON_AddItemToArray
Borrowed == [String(<<>>) EXCEPT !.borrowed = TRUE]
Keyless == Tree(cJSON_Object, Zero, <<>>, <<Element(Leaf(cJSON_NULL))>>)

Trees ==
    Leaves \cup ArraysOf(Leaves) \cup ObjectsOf(Scalars)
    \cup {NestedTree(kind, n) : kind \in {cJSON_Array, cJSON_Object},
                                n \in 2..(CJSON_NESTING_LIMIT + 1)}
    \cup {Borrowed, Keyless}

RECURSIVE Plant(_, _)
RECURSIVE PlantKids(_, _, _, _)

\* the calls that build the tree v: the heap after them and the root
Plant(h, v) ==
    LET Held(text) == cJSON_CreateString(text.h, text.p)
        Filled(made) == [h |-> PlantKids(made.h, made.p, v.kids, 1), p |-> made.p]
    IN CASE v.kind = cJSON_Number -> cJSON_CreateNumber(h, v.num)
         [] v.kind = cJSON_String ->
              IF v.borrowed THEN cJSON_CreateStringReference(h, NULL)
              ELSE Held(StaticString(h, v.str))
         [] v.kind \in {cJSON_Array, cJSON_Object} -> Filled(CreateOfKind(h, v.kind))
         [] OTHER -> CreateOfKind(h, v.kind)

PlantKids(h, parent, kids, i) ==
    IF i > Len(kids) THEN h
    ELSE LET Added(r) == PlantKids(r.h, parent, kids, i + 1)
             Keyed(child, text) ==
                 Added(add_item_to_object(text.h, parent, text.p, child, FALSE))
             Grown(child) ==
                 IF kids[i].keyed THEN Keyed(child.p, StaticString(child.h, kids[i].key))
                 ELSE Added(add_item_to_array(child.h, parent, child.p))
         IN Grown(Plant(h, kids[i].value))

NotPrinted(tree) ==
    [op |-> "none", tree |-> tree, format |-> FALSE, printed |-> NULL,
     parsed |-> NULL, case_sensitive |-> FALSE, equal |-> FALSE,
     overrun |-> FALSE, undefined |-> FALSE]

PrintInit ==
    /\ \E v \in Trees :
         /\ heap = Plant(EmptyHeap, v).h
         /\ last = NotPrinted(Plant(EmptyHeap, v).p)
    /\ json = <<>>
    /\ global_error = NoError

PrintCalls == {"cJSON_Print", "cJSON_PrintUnformatted"}

PrintedAs(format, r) ==
    /\ heap' = r.h
    /\ json' = IF r.printed = NULL THEN <<>> ELSE r.h.strs[r.printed]
    /\ last' = [last EXCEPT !.op = IF format THEN "cJSON_Print"
                                   ELSE "cJSON_PrintUnformatted",
                            !.format = format, !.printed = r.printed,
                            !.overrun = r.overrun, !.undefined = r.undefined]
    /\ UNCHANGED global_error

DoPrint ==
    /\ last.op = "none"
    /\ \E format \in BOOLEAN : PrintedAs(format, print(heap, last.tree, format))

ParsedBack(r) ==
    /\ heap' = r.h
    /\ global_error' = r.global_error
    /\ last' = [last EXCEPT !.op = "cJSON_Parse", !.parsed = r.item]
    /\ UNCHANGED json

DoParsePrinted ==
    /\ last.op \in PrintCalls
    /\ last.printed # NULL
    /\ ParsedBack(cJSON_Parse(heap, global_error, Input, Memory(json)))

DoCompare ==
    /\ last.op = "cJSON_Parse"
    /\ \E case_sensitive \in BOOLEAN :
         last' = [last EXCEPT
                    !.op = "cJSON_Compare", !.case_sensitive = case_sensitive,
                    !.equal = cJSON_Compare(heap, last.parsed, last.tree,
                                            case_sensitive)]
    /\ UNCHANGED <<heap, json, global_error>>

NextPrint == DoPrint \/ DoParsePrinted \/ DoCompare

SpecPrint == PrintInit /\ [][NextPrint]_vars

---------------------------------------------------------------------------
(* The round trip *)

TextOf(h, p) == IF p = NULL THEN <<>> ELSE h.strs[p]

\* two sibling lists hold the same values under the same keys in the same
\* order
RECURSIVE SameList(_, _, _)
SameList(h, a, b) ==
    IF a = NULL \/ b = NULL THEN a = b
    ELSE /\ h.nodes[a].type.kind = h.nodes[b].type.kind
         /\ h.nodes[a].string = NULL <=> h.nodes[b].string = NULL
         /\ TextOf(h, h.nodes[a].string) = TextOf(h, h.nodes[b].string)
         /\ h.nodes[a].type.kind = cJSON_Number
              => h.nodes[a].valuedouble = h.nodes[b].valuedouble
         /\ h.nodes[a].type.kind = cJSON_String
              => /\ h.nodes[a].valuestring # NULL
                 /\ h.nodes[b].valuestring # NULL
                 /\ h.strs[h.nodes[a].valuestring] = h.strs[h.nodes[b].valuestring]
         /\ SameList(h, h.nodes[a].child, h.nodes[b].child)
         /\ SameList(h, h.nodes[a].next, h.nodes[b].next)

\* a tree whose text says what the tree holds: every number is finite,
\* every String has a payload, every child of an Object has a key, and the
\* containers nest no deeper than the parser follows them
Printable(h, tree) ==
    /\ Nesting(h, tree) <= CJSON_NESTING_LIMIT
    /\ \A n \in Reachable(h, tree) :
         /\ h.nodes[n].type.kind = cJSON_Number => IsFinite(h.nodes[n].valuedouble)
         /\ h.nodes[n].type.kind = cJSON_String => h.nodes[n].valuestring # NULL
         /\ h.nodes[n].type.kind = cJSON_Object
              => \A c \in Range(ChildList(h, n)) : h.nodes[c].string # NULL

\* no Object of the tree holds two children whose keys the lookup of the
\* comparison takes for the same
DistinctKeys(h, tree, case_sensitive) ==
    \A n \in Reachable(h, tree) :
      h.nodes[n].type.kind = cJSON_Object =>
        \A c, d \in Range(ChildList(h, n)) :
          (/\ c # d
           /\ h.nodes[c].string # NULL
           /\ h.nodes[d].string # NULL)
          => IF case_sensitive
             THEN h.strs[h.nodes[c].string] # h.strs[h.nodes[d].string]
             ELSE ~case_insensitive_equal(h, h.nodes[c].string, h.nodes[d].string)

\* C2 as stated: for every tree without a Raw node and for both printers
\* the printed text parses, and cJSON_Compare of the parsed tree and the
\* tree is true, objects with several children under one key included.
C2_RoundTrip ==
    /\ last.op \in PrintCalls => last.printed # NULL
    /\ last.op = "cJSON_Parse" => last.parsed # NULL
    /\ last.op = "cJSON_Compare" => last.equal

\* C2, amended: both printers print every tree without a Raw node; if its
\* numbers are finite, its Strings have payloads, the children of its
\* Objects have keys and it nests no deeper than the nesting limit, the
\* text parses to a tree of the same values under the same keys in the
\* same order (children under one key included), and cJSON_Compare of the
\* two is true if no Object holds two children under keys that the
\* comparison takes for the same.
C2_RoundTripOfPrintable ==
    /\ last.op \in PrintCalls => last.printed # NULL /\ ~last.overrun /\ ~last.undefined
    /\ (last.op \in {"cJSON_Parse", "cJSON_Compare"} /\ Printable(heap, last.tree))
       => /\ last.parsed # NULL
          /\ SameList(heap, last.parsed, last.tree)
    /\ (/\ last.op = "cJSON_Compare"
        /\ Printable(heap, last.tree)
        /\ DistinctKeys(heap, last.tree, last.case_sensitive))
       => last.equal

\* an object with two children, one of them not an integer, was printed
\* with indentation, parsed and found equal
C2_Witness ==
    /\ last.op = "cJSON_Compare"
    /\ last.format
    /\ last.equal
    /\ heap.nodes[last.tree].type.kind = cJSON_Object
    /\ Len(ChildList(heap, last.tree)) = 2
    /\ \E c \in Range(ChildList(heap, last.tree)) :
         heap.nodes[c].valuedouble = Canonical(-15, -1)

---------------------------------------------------------------------------
(* The client that reads the error slot.  It owns two texts: the one at    *)
(* Input, which it may minify in place, and a second one that is a value   *)
(* followed by garbage.  It parses either (or a null pointer) through the  *)
(* four entry points and between the parses works on the nodes it has.     *)

\* calls the client of the error slot makes
MaxErrorCalls == 3

\* the address and the bytes of the second text: 1 x
Second == 2
SecondText == <<Ch.zero + 1, Ch.sp, Ch.x>>

\* the memory behind a pointer the client passes
MemoryAt(value) ==
    IF value = Input THEN Memory(json)
    ELSE IF value = Second THEN Memory(SecondText)
    ELSE <<>>

\* [null,"v"]
ErrorHeap ==
    Plant(TreeHeap, Tree(cJSON_Array, Zero, <<>>,
                         <<Element(Leaf(cJSON_NULL)), Element(String(<<Ch.v>>))>>)).h

ErrorInit ==
    /\ heap = ErrorHeap
    /\ last = [op |-> "none", ret |-> FALSE, left |-> MaxErrorCalls]
    /\ json \in {<<Ch.lbracket>>, <<Ch.sp, Ch.zero + 1>>}
    /\ global_error = NoError

ParseEntryPoints == {"cJSON_Parse", "cJSON_ParseWithOpts", "cJSON_ParseWithLength",
                     "cJSON_ParseWithLengthOpts"}

\* a call of an entry point with the pointer value and the result r
Entered(op, value, buffer_length, r) ==
    /\ CanCall
    /\ heap' = r.h
    /\ global_error' = r.global_error
    /\ last' = [op |-> op, ret |-> r.item # NULL, left |-> last.left - 1,
                value |-> value, length |-> buffer_length, offset |-> r.offset,
                before |-> cJSON_GetErrorPtr(global_error)]
    /\ UNCHANGED json

DoParse ==
    \E value \in {NULL, Input, Second} :
      Entered("cJSON_Parse", value, strlen(MemoryAt(value)) + 1,
              cJSON_Parse(heap, global_error, value, MemoryAt(value)))

DoParseWithOptsOf ==
    \E value \in {NULL, Input, Second}, require_null_terminated \in BOOLEAN :
      Entered("cJSON_ParseWithOpts", value, strlen(MemoryAt(value)) + 1,
              cJSON_ParseWithOpts(heap, global_error, value, MemoryAt(value), TRUE,
                                  require_null_terminated))

DoParseWithLength ==
    \E value \in {NULL, Input, Second} :
      \E buffer_length \in {0, Len(MemoryAt(value))} :
        Entered("cJSON_ParseWithLength", value, buffer_length,
                cJSON_ParseWithLength(heap, value, MemoryAt(value), buffer_length))

DoParseWithLengthOptsOf ==
    \E value \in {NULL, Input, Second}, require_null_terminated \in BOOLEAN :
      \E buffer_length \in {0, Len(MemoryAt(value))} :
        Entered("cJSON_ParseWithLengthOpts", value, buffer_length,
                cJSON_ParseWithLengthOpts(heap, value, MemoryAt(value), buffer_length,
                                          TRUE, require_null_terminated))

\* the calls between the parses: none of them is given the error slot
DoCreate ==
    /\ CanCall
    /\ CanCreate
    /\ heap' = cJSON_CreateArray(heap).h
    /\ last' = Did("cJSON_CreateArray", TRUE)
    /\ UNCHANGED <<json, global_error>>

DoDuplicate ==
    /\ CanCall
    /\ \E item \in heap.liveN, recurse \in BOOLEAN :
         /\ Walkable(heap, item)
         /\ heap' = cJSON_Duplicate(heap, item, recurse).h
         /\ last' = Did("cJSON_Duplicate", cJSON_Duplicate(heap, item, recurse).p # NULL)
    /\ UNCHANGED <<json, global_error>>

DoCompareNodes ==
    /\ CanCall
    /\ \E a \in heap.liveN, b \in heap.liveN, case_sensitive \in BOOLEAN :
         /\ Walkable(heap, a)
         /\ Walkable(heap, b)
         /\ last' = Did("cJSON_Compare", cJSON_Compare(heap, a, b, case_sensitive))
    /\ UNCHANGED <<heap, json, global_error>>

DoPrintNode ==
    /\ CanCall
    /\ \E item \in heap.liveN, format \in BOOLEAN :
         /\ Walkable(heap, item)
         /\ heap' = print(heap, item, format).h
         /\ last' = Did(IF format THEN "cJSON_Print" ELSE "cJSON_PrintUnformatted",
                        print(heap, item, format).printed # NULL)
    /\ UNCHANGED <<json, global_error>>

DoMinify ==
    /\ CanCall
    /\ json' = CString(cJSON_Minify(Input, Memory(json)))
    /\ last' = Did("cJSON_Minify", TRUE)
    /\ UNCHANGED <<heap, global_error>>

\* every call is one of the MaxErrorCalls calls the client makes
NextError ==
    \/ CanCall /\ DoParse
    \/ CanCall /\ DoParseWithOptsOf
    \/ CanCall /\ DoParseWithLength
    \/ CanCall /\ DoParseWithLengthOptsOf
    \/ CanCall /\ DoCreate
    \/ CanCall /\ DoAddItemToArray
    \/ CanCall /\ DoInsertItemInArray
    \/ CanCall /\ DoDetachItemViaPointer
    \/ CanCall /\ DoReplaceItemViaPointer
    \/ CanCall /\ DoDelete
    \/ CanCall /\ DoDuplicate
    \/ CanCall /\ DoCompareNodes
    \/ CanCall /\ DoPrintNode
    \/ CanCall /\ DoMinify

SpecError == ErrorInit /\ [][NextError]_vars

---------------------------------------------------------------------------
(* The error slot *)

\* C11: a call that is not a parse leaves the address cJSON_GetErrorPtr
\* returns as it was, and every call of a parse entry point, whatever its
\* arguments, replaces it: by the null pointer if the parse succeeds, by
\* the position of the new failure if it fails.
C11_ErrorUntilNextParse ==
    [][/\ last'.op \notin ParseEntryPoints
          => cJSON_GetErrorPtr(global_error') = cJSON_GetErrorPtr(global_error)
       /\ last'.op \in ParseEntryPoints
          => cJSON_GetErrorPtr(global_error') =
               IF last'.ret THEN NullPointer
               ELSE Pointer(last'.value, Recorded(last'.offset, last'.length))]_vars

---------------------------------------------------------------------------
(* The client that edits one child list.  It builds a parent with up to    *)
(* MaxSiblings children and a node of its own, then detaches, inserts,     *)
(* adds and replaces; last keeps the arguments of the call, the pointer a  *)
(* detach returned and the heap the call found.                            *)

\* children the edited parent starts with at most
MaxSiblings == 3
\* calls the editing client makes
MaxEditCalls == 2

\* "a" and [null]
EditValues == {String(<<Ch.a>>),
               Tree(cJSON_Array, Zero, <<>>, <<Element(Leaf(cJSON_NULL))>>)}

EditParents ==
    {Tree(cJSON_Array, Zero, <<>>, [i \in DOMAIN kids |-> Element(kids[i])]) :
        kids \in SeqsUpTo(EditValues, MaxSiblings)}
    \cup
    {Tree(cJSON_Object, Zero, <<>>, kids) :
        kids \in SeqsUpTo({Member(key, value) : key \in KeyTexts, value \in EditValues},
                          MaxSiblings)}

EditInit ==
    /\ \E v \in EditParents :
         heap = cJSON_CreateString(Plant(TreeHeap, v).h, Payload).h
    /\ last = [op |-> "none", ret |-> FALSE, left |-> MaxEditCalls, parent |-> NULL,
               child |-> NULL, item |-> NULL, which |-> 0, key |-> NULL, p |-> NULL,
               before |-> EmptyHeap]
    /\ json = <<>>
    /\ global_error = NoError

\* a call with its arguments (the child it names, the item it brings, the
\* index, the key; those it does not take are NULL or 0), the value it
\* returned and the pointer it returned (NULL if it returns none)
Edited(op, parent, child, item, which, key, ret, p, after) ==
    /\ heap' = after
    /\ last' = [op |-> op, ret |-> ret, left |-> last.left - 1, parent |-> parent,
                child |-> child, item |-> item, which |-> which, key |-> key,
                p |-> p,
                before |-> heap]
    /\ UNCHANGED <<json, global_error>>

\* the client does not walk a list that the call before tied into a ring
Ringed == \E n \in heap.liveN : n \in Range(ChildList(heap, n))

CanEdit == last.left > 0 /\ ~Ringed

\* what a client hands to an attaching call: a node that is in no list,
\* or the parent itself
Offered(parent) ==
    {item \in heap.liveN : item = parent \/ CanTake(parent, item)}

EditDetachItemViaPointer ==
    \E parent \in Arrays \cup Objects :
      \E item \in Range(ChildList(heap, parent)) :
        LET Returned(r) == Edited("cJSON_DetachItemViaPointer", parent, item, NULL, 0, NULL,
                                  r.p # NULL, r.p, r.h)
        IN Returned(cJSON_DetachItemViaPointer(heap, parent, item))

EditDetachItemFromArray ==
    \E parent \in Arrays \cup Objects :
      \E which \in 0..Len(ChildList(heap, parent)) :
        LET Returned(r) == Edited("cJSON_DetachItemFromArray", parent, NULL, NULL, which,
                                  NULL,
                                  r.p # NULL, r.p, r.h)
        IN Returned(cJSON_DetachItemFromArray(heap, parent, which))

EditDetachItemFromObject ==
    \E parent \in Objects, string \in Keys :
      LET Returned(r) == Edited("cJSON_DetachItemFromObject", parent, NULL, NULL, 0,
                                string,
                                r.p # NULL, r.p, r.h)
      IN Returned(cJSON_DetachItemFromObject(heap, parent, string))

EditDetachItemFromObjectCaseSensitive ==
    \E parent \in Objects, string \in Keys :
      LET Returned(r) == Edited("cJSON_DetachItemFromObjectCaseSensitive", parent, NULL,
                                NULL, 0, string, r.p # NULL, r.p, r.h)
      IN Returned(cJSON_DetachItemFromObjectCaseSensitive(heap, parent, string))

EditInsertItemInArray ==
    \E parent \in Arrays \cup Objects :
      \E newitem \in Offered(parent), which \in 0..Len(ChildList(heap, parent)) :
        LET Returned(r) == Edited("cJSON_InsertItemInArray", parent, NULL, newitem, which,
                                  NULL, r.ret, NULL, r.h)
        IN Returned(cJSON_InsertItemInArray(heap, parent, which, newitem))

EditAddItemToArray ==
    \E parent \in Arrays \cup Objects :
      \E item \in Offered(parent) :
        LET Returned(r) == Edited("cJSON_AddItemToArray", parent, NULL, item, 0, NULL,
                                  r.ret, NULL, r.h)
        IN Returned(add_item_to_array(heap, parent, item))

EditAddItemToObject ==
    \E parent \in Objects, string \in Keys :
      \E item \in Offered(parent) :
        LET Returned(r) == Edited("cJSON_AddItemToObject", parent, NULL, item, 0, string,
                                  r.ret, NULL, r.h)
        IN Returned(add_item_to_object(heap, parent, string, item, FALSE))

EditAddItemToObjectCS ==
    \E parent \in Objects, string \in Keys :
      \E item \in Offered(parent) :
        LET Returned(r) == Edited("cJSON_AddItemToObjectCS", parent, NULL, item, 0, string,
                                  r.ret, NULL, r.h)
        IN Returned(add_item_to_object(heap, parent, string, item, TRUE))

\* what a client replaces a child with: a node that is in no list, or the
\* child itself
Replacements(parent, item) ==
    {replacement \in heap.liveN : replacement = item \/ CanTake(parent, replacement)}

EditReplaceItemViaPointer ==
    \E parent \in Arrays \cup Objects :
      \E item \in Range(ChildList(heap, parent)) :
        \E replacement \in Replacements(parent, item) :
          LET Returned(r) == Edited("cJSON_ReplaceItemViaPointer", parent, item,
                                    replacement, 0, NULL, r.ret, NULL, r.h)
          IN Returned(cJSON_ReplaceItemViaPointer(heap, parent, item, replacement))

EditReplaceItemInArray ==
    \E parent \in Arrays \cup Objects :
      \E which \in 0..Len(ChildList(heap, parent)) :
        \E newitem \in Replacements(parent, get_array_item(heap, parent, which)) :
          LET Returned(r) == Edited("cJSON_ReplaceItemInArray", parent, NULL, newitem, which,
                                    NULL, r.ret, NULL, r.h)
          IN Returned(cJSON_ReplaceItemInArray(heap, parent, which, newitem))

EditReplaceItemInObject ==
    \E parent \in Objects, string \in Keys :
      \E newitem \in Replacements(parent, get_object_item(heap, parent, string, FALSE)) :
        LET Returned(r) == Edited("cJSON_ReplaceItemInObject", parent, NULL, newitem, 0,
                                  string, r.ret, NULL, r.h)
        IN Returned(replace_item_in_object(heap, parent, string, newitem, FALSE))

EditReplaceItemInObjectCaseSensitive ==
    \E parent \in Objects, string \in Keys :
      \E newitem \in Replacements(parent, get_object_item(heap, parent, string, TRUE)) :
        LET Returned(r) == Edited("cJSON_ReplaceItemInObjectCaseSensitive", parent,
                                  NULL, newitem, 0, string, r.ret, NULL, r.h)
        IN Returned(replace_item_in_object(heap, parent, string, newitem, TRUE))

NextEdit ==
    \/ CanEdit /\ EditDetachItemViaPointer
    \/ CanEdit /\ EditDetachItemFromArray
    \/ CanEdit /\ EditDetachItemFromObject
    \/ CanEdit /\ EditDetachItemFromObjectCaseSensitive
    \/ CanEdit /\ EditInsertItemInArray
    \/ CanEdit /\ EditAddItemToArray
    \/ CanEdit /\ EditAddItemToObject
    \/ CanEdit /\ EditAddItemToObjectCS
    \/ CanEdit /\ EditReplaceItemViaPointer
    \/ CanEdit /\ EditReplaceItemInArray
    \/ CanEdit /\ EditReplaceItemInObject
    \/ CanEdit /\ EditReplaceItemInObjectCaseSensitive

SpecEdit == EditInit /\ [][NextEdit]_vars

---------------------------------------------------------------------------
(* Edits of one child list *)

\* a list without its i-th element, and with item put before its i-th
Without(list, i) == SubSeq(list, 1, i - 1) \o SubSeq(list, i + 1, Len(list))
WithBefore(list, i, item) ==
    SubSeq(list, 1, i - 1) \o <<item>> \o SubSeq(list, i, Len(list))

\* the place of a child in its list
Position(list, child) == CHOOSE i \in 1..Len(list) : list[i] = child

ByPointer == {"cJSON_DetachItemViaPointer", "cJSON_ReplaceItemViaPointer"}
ByIndex == {"cJSON_DetachItemFromArray", "cJSON_ReplaceItemInArray"}
ByKey == {"cJSON_DetachItemFromObject", "cJSON_ReplaceItemInObject"}
ByKeyCaseSensitive == {"cJSON_DetachItemFromObjectCaseSensitive",
                       "cJSON_ReplaceItemInObjectCaseSensitive"}

\* the children the last call found in the parent
Siblings == ChildList(last.before, last.parent)

\* the child the last call named by pointer, by index or by key (the child
\* the lookup finds under the key); NULL if the parent had no such child
Named ==
    CASE last.op \in ByPointer -> last.child
      [] last.op \in ByIndex ->
           IF last.which < Len(Siblings) THEN Siblings[last.which + 1] ELSE NULL
      [] last.op \in ByKey ->
           get_object_item(last.before, last.parent, last.key, FALSE)
      [] last.op \in ByKeyCaseSensitive ->
           get_object_item(last.before, last.parent, last.key, TRUE)
      [] OTHER -> NULL

\* a node but for its sibling links
Unlink(node) == [node EXCEPT !.prev = NULL, !.next = NULL]

\* the call has changed nothing but sibling links of the nodes given, the
\* child pointer of the parent, and the nodes and blocks excepted
OnlyLinksOf(nodes, excepted) ==
    /\ \A n \in last.before.liveN \ (excepted \cup {last.parent}) :
         IF n \in nodes THEN Unlink(heap.nodes[n]) = Unlink(last.before.nodes[n])
         ELSE heap.nodes[n] = last.before.nodes[n]
    /\ last.parent \notin nodes
         => [heap.nodes[last.parent] EXCEPT !.child = NULL]
            = [last.before.nodes[last.parent] EXCEPT !.child = NULL]

DetachCalls == {"cJSON_DetachItemViaPointer", "cJSON_DetachItemFromArray",
                "cJSON_DetachItemFromObject", "cJSON_DetachItemFromObjectCaseSensitive"}

C13_InsertedAtIndex ==
    (last.op = "cJSON_InsertItemInArray" /\ last.item # last.parent) =>
      /\ last.ret
      /\ ChildList(heap, last.parent) = WithBefore(Siblings, last.which + 1, last.item)
      /\ get_array_item(heap, last.parent, last.which) = last.item
      /\ Len(ChildList(heap, last.parent)) = Len(Siblings) + 1
      /\ (last.which = Len(Siblings)
           => heap.nodes[heap.nodes[last.parent].child].prev = last.item)
      /\ OnlyLinksOf(Range(Siblings) \cup {last.item}, {})

\* a node was inserted between the first and the second of three children
C13_Witness ==
    /\ last.op = "cJSON_InsertItemInArray"
    /\ last.ret
    /\ last.which = 1
    /\ Len(Siblings) = 3
    /\ ChildList(heap, last.parent)[2] = last.item

ReplaceCalls == {"cJSON_ReplaceItemViaPointer", "cJSON_ReplaceItemInArray",
                 "cJSON_ReplaceItemInObject", "cJSON_ReplaceItemInObjectCaseSensitive"}

\* the replacement has a key of its own that is a copy of the key given
KeyCopied ==
    /\ heap.nodes[last.item].string \in heap.liveS
    /\ heap.nodes[last.item].string # last.key
    /\ heap.strs[heap.nodes[last.item].string] = heap.strs[last.key]
    /\ ~heap.nodes[last.item].type.StringIsConst

AttachCalls == {"cJSON_AddItemToArray", "cJSON_AddItemToObject",
                "cJSON_AddItemToObjectCS", "cJSON_InsertItemInArray"}

\* C15: a call that attaches an item to a parent and is given the parent
\* itself as the item returns failure and leaves the parent's child list,
\* key and flags as they were.
C15_SelfInsertionRefused ==
    (last.op \in AttachCalls /\ last.item = last.parent) =>
      /\ ~last.ret
      /\ ChildList(heap, last.parent) = Siblings
      /\ heap.nodes[last.parent] = last.before.nodes[last.parent]

\* the bytes of the key of a node, <<>> for a node without a key
KeyBytes(h, n) == IF h.nodes[n].string = NULL THEN <<>> ELSE h.strs[h.nodes[n].string]

\* C27: when cJSON_ReplaceItemInObject or
\* cJSON_ReplaceItemInObjectCaseSensitive fails because the object has no
\* child of that key, it returns false and leaves the child list of the
\* object and the replacement, its key and its StringIsConst flag included,
\* as they were.
C27_FailedReplaceKeepsAll ==
    (/\ last.op \in {"cJSON_ReplaceItemInObject", "cJSON_ReplaceItemInObjectCaseSensitive"}
     /\ get_object_item(last.before, last.parent, last.key,
                        last.op = "cJSON_ReplaceItemInObjectCaseSensitive") = NULL)
    => /\ ~last.ret
       /\ ChildList(heap, last.parent) = ChildList(last.before, last.parent)
       /\ (heap.nodes[last.item].string = NULL)
            = (last.before.nodes[last.item].string = NULL)
       /\ KeyBytes(heap, last.item) = KeyBytes(last.before, last.item)
       /\ heap.nodes[last.item].type = last.before.nodes[last.item].type


---------------------------------------------------------------------------
(* The client of cJSON_Duplicate.  It builds one tree and one string       *)
(* reference, may hang references and the string reference (under a        *)
(* constant key) into the tree, copies a node and deletes the copy.        *)

\* calls the client makes
MaxDupCalls == 3
\* allocations after which the client may let one fail
MaxDupFuel == 2

\* a null, -1.5 and "a", alone, in arrays and (but for the null) in objects
DupScalars == {Leaf(cJSON_NULL), Number(Canonical(-15, -1)), String(<<Ch.a>>)}

DupTrees ==
    DupScalars \cup ArraysOf(DupScalars)
    \cup ObjectsOf(DupScalars \ {Leaf(cJSON_NULL)})
    \cup {NestedTree(kind, n) : kind \in {cJSON_Array, cJSON_Object},
                                n \in 2..(CJSON_CIRCULAR_LIMIT + 1)}
    \cup {Borrowed, Keyless}

DupInit ==
    /\ \E v \in DupTrees :
         heap = cJSON_CreateStringReference(Plant(TreeHeap, v).h, Payload).h
    /\ last = [op |-> "none", ret |-> FALSE, left |-> MaxDupCalls, item |-> NULL,
               recurse |-> FALSE, fuel |-> 0, p |-> NULL, before |-> EmptyHeap]
    /\ json = <<>>
    /\ global_error = NoError

Duplicated(op, item, recurse, fuel, ret, p, before, after) ==
    /\ heap' = [after EXCEPT !.fuel = 0]
    /\ last' = [op |-> op, ret |-> ret, left |-> last.left - 1, item |-> item,
                recurse |-> recurse, fuel |-> fuel, p |-> p, before |-> before]
    /\ UNCHANGED <<json, global_error>>

DupAddItemToArray ==
    \E array \in Arrays, item \in heap.liveN :
      /\ CanTake(array, item)
      /\ LET Returned(r) ==
                 Duplicated("cJSON_AddItemToArray", item, FALSE, 0, r.ret, NULL, heap, r.h)
         IN Returned(add_item_to_array(heap, array, item))

DupAddItemToObjectCS ==
    \E object \in Objects, item \in heap.liveN, string \in NewKeys :
      /\ CanTake(object, item)
      /\ LET Returned(r) ==
                 Duplicated("cJSON_AddItemToObjectCS", item, FALSE, 0, r.ret, NULL, heap, r.h)
         IN Returned(add_item_to_object(heap, object, string, item, TRUE))

DupAddItemReferenceToArray ==
    \E array \in Arrays, item \in heap.liveN :
      /\ Walkable(heap, array)
      /\ LET Returned(r) ==
                 Duplicated("cJSON_AddItemReferenceToArray", item, FALSE, 0, r.ret, NULL,
                            heap, r.h)
         IN Returned(cJSON_AddItemReferenceToArray(heap, array, item))

DupAddItemReferenceToObject ==
    \E object \in Objects, item \in heap.liveN, string \in NewKeys :
      /\ Walkable(heap, object)
      /\ LET Returned(r) ==
                 Duplicated("cJSON_AddItemReferenceToObject", item, FALSE, 0, r.ret, NULL,
                            heap, r.h)
         IN Returned(cJSON_AddItemReferenceToObject(heap, object, string, item))

DupDuplicate ==
    \E item \in heap.liveN, recurse \in BOOLEAN, fuel \in 0..MaxDupFuel :
      LET before == [heap EXCEPT !.fuel = fuel]
          Returned(r) ==
              Duplicated("cJSON_Duplicate", item, recurse, fuel, r.p # NULL, r.p,
                         before, r.h)
      IN Returned(cJSON_Duplicate(before, item, recurse))

\* the client deletes the copy it got
DupDelete ==
    /\ last.op = "cJSON_Duplicate"
    /\ last.p # NULL
    /\ Duplicated("cJSON_Delete", last.item, last.recurse, last.fuel, TRUE, last.p,
                  last.before, cJSON_Delete(heap, last.p))

CanDup == last.left > 0

NextDup ==
    \/ CanDup /\ DupAddItemToArray
    \/ CanDup /\ DupAddItemToObjectCS
    \/ CanDup /\ DupAddItemReferenceToArray
    \/ CanDup /\ DupAddItemReferenceToObject
    \/ CanDup /\ DupDuplicate
    \/ CanDup /\ DupDelete

SpecDup == DupInit /\ [][NextDup]_vars

---------------------------------------------------------------------------
(* The deep copy *)

\* how many levels of children a node has below it, counted up to fuel
RECURSIVE HeightFrom(_, _, _)
HeightFrom(h, item, fuel) ==
    IF fuel = 0 \/ h.nodes[item].child = NULL THEN 0
    ELSE LET below == {HeightFrom(h, c, fuel - 1) : c \in Range(ChildList(h, item))}
         IN 1 + CHOOSE m \in below : \A o \in below : o <= m

\* a tree cJSON_Duplicate follows to its leaves
WithinDepthLimit(h, item) ==
    HeightFrom(h, item, CJSON_CIRCULAR_LIMIT + 1) <= CJSON_CIRCULAR_LIMIT

\* two nodes of the same kind, key, number and string, with children that
\* are the same in this sense, in the same order
RECURSIVE SameShape(_, _, _)
SameShape(h, a, b) ==
    /\ h.nodes[a].type.kind = h.nodes[b].type.kind
    /\ h.nodes[a].type.StringIsConst = h.nodes[b].type.StringIsConst
    /\ h.nodes[a].valueint = h.nodes[b].valueint
    /\ h.nodes[a].valuedouble = h.nodes[b].valuedouble
    /\ h.nodes[a].valuestring = NULL <=> h.nodes[b].valuestring = NULL
    /\ TextOf(h, h.nodes[a].valuestring) = TextOf(h, h.nodes[b].valuestring)
    /\ h.nodes[a].string = NULL <=> h.nodes[b].string = NULL
    /\ TextOf(h, h.nodes[a].string) = TextOf(h, h.nodes[b].string)
    /\ Len(ChildList(h, a)) = Len(ChildList(h, b))
    /\ \A i \in 1..Len(ChildList(h, a)) :
         SameShape(h, ChildList(h, a)[i], ChildList(h, b)[i])

\* a block the call has allocated
FreshString(p) ==
    /\ p \in heap.liveS
    /\ p \notin last.before.liveS

\* the original and everything that was allocated before the call is as it
\* was
OriginalIntact ==
    /\ \A n \in last.before.liveN :
         /\ n \in heap.liveN
         /\ heap.nodes[n] = last.before.nodes[n]
    /\ \A p \in last.before.liveS :
         /\ p \in heap.liveS
         /\ heap.strs[p] = last.before.strs[p]

DeepCopyCalled ==
    /\ last.recurse
    /\ last.fuel = 0
    /\ WithinDepthLimit(last.before, last.item)

\* C16: cJSON_Duplicate(item, true) of a tree within the depth limit
\* returns a new tree of the same shape as item (kinds, keys, numbers,
\* strings and child order); no node of it is a node of the original, every
\* string payload and every key that is not constant is a block of its own,
\* and IsReference is clear on every node of it, copies of reference nodes
\* with borrowed children included; deleting the copy frees exactly what
\* the call allocated.
C16_DeepCopy ==
    /\ (last.op = "cJSON_Duplicate" /\ DeepCopyCalled) =>
         /\ last.p # NULL
         /\ SameShape(heap, last.item, last.p)
         /\ heap.nodes[last.p].next = NULL
         /\ heap.nodes[last.p].prev = NULL
         /\ Reachable(heap, last.p) \cap last.before.liveN = {}
         /\ Reachable(heap, last.p) = OwnedNodes(heap, last.p)
         /\ \A n \in Reachable(heap, last.p) :
              /\ n \in heap.liveN
              /\ ~heap.nodes[n].type.IsReference
              /\ SiblingListOK(heap, n)
              /\ heap.nodes[n].valuestring # NULL
                   => /\ FreshString(heap.nodes[n].valuestring)
                      /\ \A m \in Reachable(heap, last.p) \ {n} :
                           /\ heap.nodes[m].valuestring # heap.nodes[n].valuestring
                           /\ heap.nodes[m].string # heap.nodes[n].valuestring
              /\ (heap.nodes[n].string # NULL /\ ~heap.nodes[n].type.StringIsConst)
                   => /\ FreshString(heap.nodes[n].string)
                      /\ \A m \in Reachable(heap, last.p) \ {n} :
                           heap.nodes[m].string # heap.nodes[n].string
         /\ OriginalIntact
    /\ (last.op = "cJSON_Delete" /\ DeepCopyCalled) =>
         /\ ~heap.fault
         /\ heap.liveN = last.before.liveN
         /\ heap.liveS = last.before.liveS
         /\ OriginalIntact

\* an array that holds a reference to an array with a child was copied:
\* the copy of the reference owns a copy of the borrowed child
C16_Witness ==
    /\ last.op = "cJSON_Duplicate"
    /\ DeepCopyCalled
    /\ last.p # NULL
    /\ \E c \in Range(ChildList(last.before, last.item)) :
         /\ last.before.nodes[c].type.IsReference
         /\ last.before.nodes[c].child # NULL
    /\ \E c \in Range(ChildList(heap, last.p)) :
         /\ heap.nodes[c].child # NULL
         /\ heap.nodes[c].child \notin last.before.liveN

---------------------------------------------------------------------------
(* The client of cJSON_Minify.  It holds one text, keeps json as it wrote  *)
(* it and minifies a copy in place (last.mem), once or several times; it   *)
(* parses the text and the minified copy, both up to their nul byte, and   *)
(* compares the two trees.                                                 *)

\* times the client minifies its copy
MaxMinify == 2

Quoted(text) == <<Ch.quote>> \o text \o <<Ch.quote>>

\* 1, "a b", "\\", "\"", "/ /" and "", a string that is not closed and a
\* number behind a comment
MinifyElements ==
    {<<Ch.zero + 1>>,
     Quoted(<<Ch.a, Ch.sp, Ch.b>>),
     Quoted(<<Ch.backslash, Ch.backslash>>),
     Quoted(<<Ch.backslash, Ch.quote>>),
     Quoted(<<Ch.slash, Ch.sp, Ch.slash>>),
     Quoted(<<>>),
     <<Ch.quote, Ch.a>>,
     <<Ch.slash, Ch.star, Ch.sp, Ch.star, Ch.slash, Ch.zero + 1>>}

Gaps == {<<>>, <<Ch.sp>>}
Indents == Gaps \cup {<<Ch.lf, Ch.tab>>, <<Ch.cr, Ch.lf>>}

\* /* k */ {"k":1} // k
Commented ==
    <<Ch.slash, Ch.star, Ch.sp, Ch.k, Ch.sp, Ch.star, Ch.slash, Ch.sp>>
    \o <<Ch.lbrace>> \o Key \o <<Ch.zero + 1, Ch.rbrace, Ch.sp>>
    \o <<Ch.slash, Ch.slash, Ch.sp, Ch.k>>

\* arrays of one and of two of the elements, with and without white space
MinifyTexts ==
    {<<Ch.lbracket>> \o i \o e \o g \o <<Ch.rbracket>> :
        i \in Indents, e \in MinifyElements, g \in Gaps}
    \cup
    {<<Ch.lbracket>> \o i \o e[1] \o g[1] \o <<Ch.comma>> \o g[2] \o e[2] \o g[3]
       \o <<Ch.rbracket>> :
        i \in Indents, e \in MinifyElements \X MinifyElements, g \in Gaps \X Gaps \X Gaps}
    \cup {Commented}

MinifyInit ==
    /\ json \in MinifyTexts
    /\ heap = EmptyHeap
    /\ global_error = NoError
    /\ last = [op |-> "none", mem |-> Memory(json), times |-> 0, first |-> <<>>,
               sourced |-> FALSE, source |-> NULL, targeted |-> 0, target |-> NULL,
               compared |-> FALSE, equal |-> FALSE]

\* cJSON_ParseWithOpts(json, NULL, true) of the text as it was written
MinifyParse ==
    /\ ~last.sourced
    /\ LET Returned(r) ==
               /\ heap' = r.h
               /\ global_error' = r.global_error
               /\ last' = [last EXCEPT !.op = "cJSON_ParseWithOpts", !.sourced = TRUE,
                                       !.source = r.item]
       IN Returned(cJSON_ParseWithOpts(heap, global_error, Input, Memory(json),
                                       FALSE, TRUE))
    /\ UNCHANGED json

MinifyMinify ==
    /\ last.times < MaxMinify
    /\ LET Returned(mem) ==
               last' = [last EXCEPT !.op = "cJSON_Minify", !.mem = mem,
                                    !.times = @ + 1,
                                    !.first = IF last.times = 0 THEN mem ELSE @]
       IN Returned(cJSON_Minify(Input, last.mem))
    /\ UNCHANGED <<heap, json, global_error>>

\* the same parse of the copy, after it was minified
MinifyParseMinified ==
    /\ last.times > 0
    /\ last.targeted = 0
    /\ LET Returned(r) ==
               /\ heap' = r.h
               /\ global_error' = r.global_error
               /\ last' = [last EXCEPT !.op = "cJSON_ParseWithOpts",
                                       !.targeted = last.times, !.target = r.item]
       IN Returned(cJSON_ParseWithOpts(heap, global_error, Input, last.mem,
                                       FALSE, TRUE))
    /\ UNCHANGED json

MinifyCompare ==
    /\ last.sourced
    /\ last.targeted > 0
    /\ ~last.compared
    /\ \E case_sensitive \in BOOLEAN :
         last' = [last EXCEPT !.op = "cJSON_Compare", !.compared = TRUE,
                              !.equal = cJSON_Compare(heap, last.source, last.target,
                                                      case_sensitive)]
    /\ UNCHANGED <<heap, json, global_error>>

NextMinify ==
    \/ MinifyParse
    \/ MinifyMinify
    \/ MinifyParseMinified
    \/ MinifyCompare

SpecMinify == MinifyInit /\ [][NextMinify]_vars

---------------------------------------------------------------------------
(* Minification *)

\* the text as the parser takes it, whole, for JSON
ValidText == last.sourced /\ last.source # NULL

\* C17: for a valid JSON text S, the parse of cJSON_Minify(S) yields a tree
\* that cJSON_Compare finds equal to the tree parsed from S, also when a
\* string of S ends with an escaped backslash.
C17_MinifyNeutral ==
    (ValidText /\ last.targeted = 1 /\ last.compared) =>
      /\ last.target # NULL
      /\ last.equal

\* C18: for a valid JSON text S, cJSON_Minify of the buffer that holds
\* cJSON_Minify(S) leaves every byte of the buffer as it is.
C18_MinifyIdempotent ==
    (ValidText /\ last.times >= 2) => last.mem = last.first

\* a valid text with white space outside and inside its strings was
\* minified twice: the first turn has shortened it, the second changed nothing
C18_Witness ==
    /\ ValidText
    /\ last.times = 2
    /\ strlen(last.first) < Len(json)
    /\ last.mem = last.first
    /\ \E i \in 1..strlen(last.first) : last.first[i] = Ch.sp

---------------------------------------------------------------------------
(* The client of cJSON_PrintPreallocated.  It builds one tree, prints it   *)
(* into memory of its own of some capacity, and then has cJSON_Print or    *)
(* cJSON_PrintUnformatted print the same tree to see what the text is.     *)

\* the largest capacity the client gives its memory
MaxCapacity == 12

FixedTrees ==
    Leaves \cup ArraysOf(Scalars) \cup ObjectsOf({Number(Canonical(1, 0))})
    \cup {NestedTree(cJSON_Object, 2), Borrowed, Keyless}

FixedInit ==
    /\ \E v \in FixedTrees, fuel \in 0..1 :
         /\ heap = [Plant(EmptyHeap, v).h EXCEPT !.fuel = fuel]
         /\ last = [op |-> "none", tree |-> Plant(EmptyHeap, v).p, format |-> FALSE,
                    buffer |-> NULL, capacity |-> 0, ret |-> FALSE, bytes |-> <<>>,
                    overrun |-> FALSE, before |-> EmptyHeap, printed |-> NULL]
    /\ json = <<>>
    /\ global_error = NoError

DoPrintPreallocated ==
    /\ last.op = "none"
    /\ \E buffer \in {NULL, Input}, length \in (0 - 1)..MaxCapacity, format \in BOOLEAN :
         LET Returned(r) ==
                 /\ heap' = r.p.hooks
                 /\ last' = [last EXCEPT !.op = "cJSON_PrintPreallocated",
                                         !.format = format, !.buffer = buffer,
                                         !.capacity = length, !.ret = r.ret,
                                         !.bytes = r.p.bytes, !.overrun = r.p.overrun,
                                         !.before = heap]
         IN Returned(cJSON_PrintPreallocated(heap, last.tree, buffer, length, format))
    /\ UNCHANGED <<json, global_error>>

\* cJSON_Print or cJSON_PrintUnformatted of the same tree, with every
\* allocation granted
DoPrintDynamic ==
    /\ last.op = "cJSON_PrintPreallocated"
    /\ LET Returned(r) ==
               /\ heap' = r.h
               /\ json' = IF r.printed = NULL THEN <<>> ELSE r.h.strs[r.printed]
               /\ last' = [last EXCEPT !.op = IF last.format THEN "cJSON_Print"
                                              ELSE "cJSON_PrintUnformatted",
                                       !.printed = r.printed]
       IN Returned(print([heap EXCEPT !.fuel = 0], last.tree, last.format))
    /\ UNCHANGED global_error

NextFixed == DoPrintPreallocated \/ DoPrintDynamic

SpecFixed == FixedInit /\ [][NextFixed]_vars

---------------------------------------------------------------------------
(* Fixed mode *)

\* C19: cJSON_PrintPreallocated writes no byte at an index that is not
\* below the capacity it was given and leaves the allocator alone (no
\* allocation, no reallocation, no free); when the text of the tree, with
\* its nul byte, is longer than the capacity, it returns false.
C19_FixedMode ==
    /\ last.op # "none" =>
         /\ ~last.overrun
         /\ Len(last.bytes) <= Max(last.capacity, 0)
         /\ last.buffer = NULL => last.bytes = <<>>
    /\ last.op = "cJSON_PrintPreallocated" => heap = last.before
    /\ (/\ last.op \in PrintCalls
        /\ last.printed # NULL
        /\ Len(json) + 1 > last.capacity)
       => ~last.ret

\* a text of more than one byte did not fit by one byte: the call has
\* written into the memory and returned false
C19_Witness ==
    /\ last.op \in PrintCalls
    /\ last.printed # NULL
    /\ last.buffer # NULL
    /\ Len(json) > 1
    /\ last.capacity = Len(json)
    /\ last.bytes # <<>>
    /\ ~last.ret

\* C26: cJSON_PrintPreallocated into the caller's memory returns true if and
\* only if the capacity is at least the length of the text plus 2; memory
\* that holds the text and its nul byte and no more is rejected, for every
\* tree and both formats.
C26_TwoSpareBytes ==
    (/\ last.op \in PrintCalls
     /\ last.printed # NULL
     /\ last.buffer # NULL)
    => (last.ret <=> last.capacity >= Len(json) + 2)

\* a formatted array of two was printed into memory of the length of its
\* text plus 2
C26_Witness ==
    /\ last.op = "cJSON_Print"
    /\ last.printed # NULL
    /\ last.buffer # NULL
    /\ heap.nodes[last.tree].type.kind = cJSON_Array
    /\ heap.nodes[last.tree].child # NULL
    /\ heap.nodes[heap.nodes[last.tree].child].next # NULL
    /\ last.capacity = Len(json) + 2
    /\ last.ret
    /\ CString(last.bytes) = json


---------------------------------------------------------------------------
(* The client of the first scenario.  It holds the text                    *)
(*     {"a":1,"b":[true,null,"x\u00e9"]}                                   *)
(* or a text that differs from it in how the number and the string are     *)
(* written, parses it, prints the tree, parses the printed text and        *)
(* compares the two trees.                                                 *)

U(h1, h2, h3, h4) == <<Ch.backslash, Ch.u, h1, h2, h3, h4>>

\* the string, as it is written between the quotes and as its bytes are
\* in UTF-8
XE9 == <<Ch.x, 195, 169>>
Strings ==
    {[written |-> <<Ch.x>> \o U(Ch.zero, Ch.zero, Ch.e, Ch.nine), bytes |-> XE9],
     [written |-> <<Ch.x>> \o U(Ch.zero, Ch.zero, Ch.E, Ch.nine), bytes |-> XE9],
     [written |-> XE9, bytes |-> XE9],
     [written |-> U(Ch.zero, Ch.zero, Ch.zero + 4, Ch.zero + 1), bytes |-> <<Ch.A>>],
     [written |-> <<Ch.A>>, bytes |-> <<Ch.A>>],
     [written |-> U(Ch.zero, Ch.zero, Ch.zero + 8, Ch.zero), bytes |-> <<194, 128>>],
     [written |-> U(Ch.zero, Ch.zero + 8, Ch.zero, Ch.zero), bytes |-> <<224, 160, 128>>],
     [written |-> <<224, 160, 128>>, bytes |-> <<224, 160, 128>>]}

\* 1 and 1.0
Ones == {<<Ch.zero + 1>>, <<Ch.zero + 1, Ch.dot, Ch.zero>>}

\* {"a":<number>,"b":[true,null,"<string>"]}
Scenario(number, gap, string) ==
    <<Ch.lbrace, Ch.quote, Ch.a, Ch.quote, Ch.colon>> \o number
    \o <<Ch.comma>> \o gap \o <<Ch.quote, Ch.b, Ch.quote, Ch.colon, Ch.lbracket>>
    \o LiteralTrue \o <<Ch.comma>> \o LiteralNull \o <<Ch.comma>>
    \o Quoted(string) \o <<Ch.rbracket, Ch.rbrace>>

Scenario1 ==
    Scenario(<<Ch.zero + 1>>, <<>>, <<Ch.x>> \o U(Ch.zero, Ch.zero, Ch.e, Ch.nine))

ScenarioInit ==
    /\ \E number \in Ones, gap \in Gaps, string \in Strings :
         /\ json = Scenario(number, gap, string.written)
         /\ last = [op |-> "none", bytes |-> string.bytes, root |-> NULL,
                    format |-> FALSE, printed |-> NULL, text |-> <<>>,
                    parsed |-> NULL, equal |-> FALSE]
    /\ heap = EmptyHeap
    /\ global_error = NoError

ScenarioParse ==
    /\ last.op = "none"
    /\ LET Returned(r) ==
               /\ heap' = r.h
               /\ global_error' = r.global_error
               /\ last' = [last EXCEPT !.op = "cJSON_Parse", !.root = r.item]
       IN Returned(cJSON_Parse(heap, global_error, Input, Memory(json)))
    /\ UNCHANGED json

ScenarioPrint ==
    /\ last.op = "cJSON_Parse"
    /\ last.root # NULL
    /\ last.printed = NULL
    /\ \E format \in BOOLEAN :
         LET Returned(r) ==
                 /\ heap' = r.h
                 /\ last' = [last EXCEPT
                               !.op = IF format THEN "cJSON_Print"
                                      ELSE "cJSON_PrintUnformatted",
                               !.format = format, !.printed = r.printed,
                               !.text = IF r.printed = NULL THEN <<>>
                                        ELSE r.h.strs[r.printed]]
         IN Returned(print(heap, last.root, format))
    /\ UNCHANGED <<json, global_error>>

ScenarioParsePrinted ==
    /\ last.op \in PrintCalls
    /\ last.printed # NULL
    /\ LET Returned(r) ==
               /\ heap' = r.h
               /\ global_error' = r.global_error
               /\ last' = [last EXCEPT !.op = "cJSON_Parse", !.parsed = r.item]
       IN Returned(cJSON_Parse(heap, global_error, Second, Memory(last.text)))
    /\ UNCHANGED json

ScenarioCompare ==
    /\ last.op = "cJSON_Parse"
    /\ last.parsed # NULL
    /\ \E case_sensitive \in BOOLEAN :
         last' = [last EXCEPT !.op = "cJSON_Compare",
                              !.equal = cJSON_Compare(heap, last.root, last.parsed,
                                                      case_sensitive)]
    /\ UNCHANGED <<heap, json, global_error>>

NextScenario ==
    \/ ScenarioParse
    \/ ScenarioPrint
    \/ ScenarioParsePrinted
    \/ ScenarioCompare

SpecScenario == ScenarioInit /\ [][NextScenario]_vars

---------------------------------------------------------------------------
(* The first scenario *)

\* the tree is an Object with a = Number 1 and b = Array [True, Null,
\* String of the bytes]
ScenarioTree(h, root, bytes) ==
    LET members == ChildList(h, root)
        a == members[1]
        b == members[2]
        elements == ChildList(h, b)
    IN /\ root # NULL
       /\ h.nodes[root].type.kind = cJSON_Object
       /\ Len(members) = 2
       /\ TextOf(h, h.nodes[a].string) = <<Ch.a>>
       /\ h.nodes[a].type.kind = cJSON_Number
       /\ h.nodes[a].valuedouble = Canonical(1, 0)
       /\ h.nodes[a].valueint = 1
       /\ TextOf(h, h.nodes[b].string) = <<Ch.b>>
       /\ h.nodes[b].type.kind = cJSON_Array
       /\ Len(elements) = 3
       /\ h.nodes[elements[1]].type.kind = cJSON_True
       /\ h.nodes[elements[2]].type.kind = cJSON_NULL
       /\ h.nodes[elements[3]].type.kind = cJSON_String
       /\ TextOf(h, h.nodes[elements[3]].valuestring) = bytes

\* C20 as stated: the unformatted print of the tree parsed from
\* {"a":1,"b":[true,null,"x\u00e9"]} equals that text byte for byte.
C20_PrintEqualsInput ==
    (json = Scenario1 /\ last.op = "cJSON_PrintUnformatted") =>
      /\ ScenarioTree(heap, last.root, XE9)
      /\ last.text = json

\* C20: the text parses to an Object with a = Number 1 and b = Array
\* [True, Null, String]; the String holds the UTF-8 bytes of the text that
\* was written, and the unformatted print of the tree is the text with 1
\* for the number, without white space and with the string in those bytes,
\* which is the input byte for byte only if the input was written so.
C20_PrintInUTF8 ==
    /\ last.op # "none" => ScenarioTree(heap, last.root, last.bytes)
    /\ last.op = "cJSON_PrintUnformatted" =>
         /\ last.text = Scenario(<<Ch.zero + 1>>, <<>>, last.bytes)
         /\ last.text = json
              <=> json \in {Scenario(<<Ch.zero + 1>>, <<>>, string.bytes) :
                              string \in Strings}

\* the text of the scenario was parsed and printed: the print is the
\* shorter text with the two bytes of U+00E9
C20_Witness ==
    /\ json = Scenario1
    /\ last.op = "cJSON_PrintUnformatted"
    /\ Len(last.text) = Len(json) - 4
    /\ last.text[Len(last.text) - 4] = 195

---------------------------------------------------------------------------
(* The client of skip_utf8_bom.  It holds a text, parses the first bytes   *)
(* of it and parses the same bytes behind a byte order mark, with a length *)
(* that is greater by three.                                               *)

\* bytes of the texts of this client
MaxBomLen == 3

BomAlphabet == {Ch.zero + 1, Ch.sp, Ch.lbracket, Ch.rbracket, Ch.quote, Ch.comma}

BomTexts == SeqsUpTo(BomAlphabet, MaxBomLen)

BomInit ==
    /\ json \in BomTexts
    /\ heap = EmptyHeap
    /\ global_error = NoError
    /\ last = [op |-> "none", length |-> 0, strict |-> FALSE,
               parsed |-> FALSE, plain |-> NULL, marked |-> FALSE, behind |-> NULL]

\* the length the client passes: the one of the call before, or any
BomLengths ==
    IF last.op = "none" THEN 1..Len(Memory(json)) ELSE {last.length}
BomStrict == IF last.op = "none" THEN BOOLEAN ELSE {last.strict}

\* cJSON_ParseWithLengthOpts(S, length, NULL, strict)
BomParse ==
    /\ ~last.parsed
    /\ \E buffer_length \in BomLengths, require_null_terminated \in BomStrict :
         LET Returned(r) ==
                 /\ heap' = r.h
                 /\ global_error' = r.global_error
                 /\ last' = [last EXCEPT !.op = "cJSON_ParseWithLengthOpts",
                                         !.length = buffer_length,
                                         !.strict = require_null_terminated,
                                         !.parsed = TRUE, !.plain = r.item]
         IN Returned(cJSON_ParseWithLengthOpts(heap, Input, Memory(json), buffer_length,
                                               FALSE, require_null_terminated))
    /\ UNCHANGED json

\* cJSON_ParseWithLengthOpts(BOM + S, length + 3, NULL, strict)
BomParseMarked ==
    /\ ~last.marked
    /\ \E buffer_length \in BomLengths, require_null_terminated \in BomStrict :
         LET Returned(r) ==
                 /\ heap' = r.h
                 /\ global_error' = r.global_error
                 /\ last' = [last EXCEPT !.op = "cJSON_ParseWithLengthOpts",
                                         !.length = buffer_length,
                                         !.strict = require_null_terminated,
                                         !.marked = TRUE, !.behind = r.item]
         IN Returned(cJSON_ParseWithLengthOpts(heap, Second, UTF8_BOM \o Memory(json),
                                               buffer_length + Len(UTF8_BOM), FALSE,
                                               require_null_terminated))
    /\ UNCHANGED json

NextBom == BomParse \/ BomParseMarked

SpecBom == BomInit /\ [][NextBom]_vars

---------------------------------------------------------------------------
(* The byte order mark *)

\* C21: for every text S and every length, the parse of BOM + S with the
\* length plus three gives what the parse of S with the length gives:
\* both fail or both succeed, with the same tree.
C21_BomSkipped ==
    (last.parsed /\ last.marked) =>
      /\ last.plain = NULL <=> last.behind = NULL
      /\ last.plain # NULL => SameShape(heap, last.plain, last.behind)

---------------------------------------------------------------------------
(* The client of the string parser.  It holds one string literal with an   *)
(* escape or two in it, parses it (the whole text, up to its nul byte) and *)
(* prints the tree it got.                                                 *)

\* four bytes behind \u as the client writes them, and the number they
\* are in hexadecimal (-1: they are not four hexadecimal digits)
Quad(h1, h2, h3, h4, code) == [hex |-> <<h1, h2, h3, h4>>, code |-> code]

Quads ==
    {Quad(Ch.zero, Ch.zero, Ch.zero + 4, Ch.zero + 1, 65),
     Quad(Ch.zero, Ch.zero, Ch.e, Ch.nine, 233),
     Quad(Ch.D, Ch.zero + 7, Ch.F, Ch.F, 55295),
     Quad(Ch.D, Ch.zero + 8, Ch.zero, Ch.zero, 55296),
     Quad(Ch.D, Ch.zero + 8, Ch.zero + 3, Ch.zero + 4, 55348),
     Quad(Ch.d, Ch.b, Ch.f, Ch.f, 56319),
     Quad(Ch.D, Ch.C, Ch.zero, Ch.zero, 56320),
     Quad(Ch.D, Ch.D, Ch.zero + 1, Ch.E, 56606),
     Quad(Ch.d, Ch.f, Ch.F, Ch.f, 57343),
     Quad(Ch.E, Ch.zero, Ch.zero, Ch.zero, 57344),
     Quad(Ch.zero, Ch.zero, Ch.zero, Ch.zero, 0),
     Quad(Ch.zero, Ch.zero, Ch.g, Ch.zero + 1, 0 - 1),
     Quad(Ch.Z, Ch.Z, Ch.Z, Ch.Z, 0 - 1),
     Quad(Ch.D, Ch.zero + 8, Ch.zero + 3, Ch.sp, 0 - 1)}

\* the bytes that may stand behind a backslash, and some that may not
Escapable == {Ch.b, Ch.f, Ch.n, Ch.r, Ch.t, Ch.quote, Ch.backslash, Ch.slash}
NotEscapable == {Ch.a, Ch.x, Ch.q, Ch.zero, Ch.sp, Ch.E, Ch.B}

\* what the client writes between the quotes: one escape of a letter, \u
\* with less than four bytes, one quad, two quads and two quads apart
StringCases ==
    {[text |-> pre \o <<Ch.backslash, c>> \o post, first |-> 0 - 1, second |-> 0 - 1,
      quads |-> 0, adjacent |-> FALSE] :
        pre \in {<<>>, <<Ch.x>>}, c \in Escapable \cup NotEscapable,
        post \in {<<>>, <<Ch.x>>}}
    \cup
    {[text |-> <<Ch.backslash, Ch.u>> \o short, first |-> 0 - 1, second |-> 0 - 1,
      quads |-> 0, adjacent |-> FALSE] :
        short \in {<<>>, <<Ch.zero + 1, Ch.zero + 2>>, <<Ch.D, Ch.zero + 8, Ch.zero>>}}
    \cup
    {[text |-> <<Ch.backslash, Ch.u>> \o q.hex \o post, first |-> q.code,
      second |-> 0 - 1, quads |-> 1, adjacent |-> FALSE] :
        q \in Quads, post \in {<<>>, <<Ch.x>>, <<Ch.backslash, Ch.n>>}}
    \cup
    {[text |-> <<Ch.backslash, Ch.u>> \o q[1].hex \o between
                 \o <<Ch.backslash, Ch.u>> \o q[2].hex,
      first |-> q[1].code, second |-> q[2].code, quads |-> 2,
      adjacent |-> between = <<>>] :
        q \in Quads \X Quads, between \in {<<>>, <<Ch.x>>}}

StringInit ==
    /\ \E c \in StringCases :
         /\ json = Quoted(c.text)
         /\ last = [op |-> "none", first |-> c.first, second |-> c.second,
                    quads |-> c.quads, adjacent |-> c.adjacent, root |-> NULL,
                    printed |-> NULL]
    /\ heap = EmptyHeap
    /\ global_error = NoError

\* cJSON_ParseWithOpts(json, NULL, strict)
StringParse ==
    /\ last.op = "none"
    /\ \E require_null_terminated \in BOOLEAN :
         LET Returned(r) ==
                 /\ heap' = r.h
                 /\ global_error' = r.global_error
                 /\ last' = [last EXCEPT !.op = "cJSON_ParseWithOpts", !.root = r.item]
         IN Returned(cJSON_ParseWithOpts(heap, global_error, Input, Memory(json), FALSE,
                                         require_null_terminated))
    /\ UNCHANGED json

StringPrint ==
    /\ last.op = "cJSON_ParseWithOpts"
    /\ last.root # NULL
    /\ LET Returned(r) ==
               /\ heap' = r.h
               /\ last' = [last EXCEPT !.op = "cJSON_PrintUnformatted",
                                       !.printed = r.printed]
       IN Returned(cJSON_PrintUnformatted(heap, last.root))
    /\ UNCHANGED <<json, global_error>>

NextString == StringParse \/ StringPrint

SpecString == StringInit /\ [][NextString]_vars

---------------------------------------------------------------------------
(* Escapes *)

\* what stands between the quotes of the text
Body == SubSeq(json, 2, Len(json) - 1)

\* from index i on the body holds a backslash followed by a byte that may
\* not be escaped, or \u followed by four bytes that are not all
\* hexadecimal digits
RECURSIVE MalformedFrom(_, _)
MalformedFrom(body, i) ==
    IF i >= Len(body) THEN FALSE
    ELSE IF body[i] # Ch.backslash THEN MalformedFrom(body, i + 1)
    ELSE IF body[i + 1] \in Escapable THEN MalformedFrom(body, i + 2)
    ELSE IF body[i + 1] # Ch.u THEN TRUE
    ELSE IF i + 5 > Len(body) THEN FALSE
    ELSE IF \E k \in 2..5 : HexValue(body[i + k]) < 0 THEN TRUE
    ELSE MalformedFrom(body, i + 6)

\* C22: a string literal with a backslash followed by a byte outside
\* b f n r t " \ / u, or with \u followed by four bytes that are not all
\* hexadecimal digits, makes the parse return null.
C22_MalformedEscapeFails ==
    (last.op # "none" /\ MalformedFrom(Body, 1)) => last.root = NULL
HighSurrogate(code) == code >= 55296 /\ code <= 56319
LowSurrogate(code) == code >= 56320 /\ code <= 57343

\* the four bytes of UTF-8 of the codepoint a surrogate pair stands for
PairInUTF8(high, low) ==
    LET codepoint == 65536 + (high - 55296) * 1024 + (low - 56320)
    IN <<240 + (codepoint \div 262144), 128 + ((codepoint \div 4096) % 64),
         128 + ((codepoint \div 64) % 64), 128 + (codepoint % 64)>>

\* the bytes of the string the parse returned
ParsedString == heap.strs[heap.nodes[last.root].valuestring]

\* C24: a \u escape in the high surrogate range is accepted only when a \u
\* escape in the low surrogate range follows it immediately, and the pair
\* becomes the four bytes of UTF-8 of its codepoint; a low surrogate that
\* comes first and a high surrogate without a low one behind it make the
\* parse fail.
C24_SurrogatePairs ==
    (last.op # "none" /\ last.quads >= 1) =>
      /\ LowSurrogate(last.first) => last.root = NULL
      /\ HighSurrogate(last.first) =>
           IF last.quads = 2 /\ last.adjacent /\ LowSurrogate(last.second)
           THEN /\ last.root # NULL
                /\ heap.nodes[last.root].type.kind = cJSON_String
                /\ ParsedString = PairInUTF8(last.first, last.second)
           ELSE last.root = NULL

\* \uD834\uDD1E was parsed to F0 9D 84 9E
C24_Witness ==
    /\ last.op = "cJSON_ParseWithOpts"
    /\ last.first = 55348 /\ last.second = 56606 /\ last.adjacent
    /\ last.root # NULL
    /\ ParsedString = <<240, 157, 132, 158>>

---------------------------------------------------------------------------
(* The client of the formatted printer.  It builds a tree of arrays and    *)
(* objects inside each other and prints it, to a text of its own or into   *)
(* memory that is large enough.                                            *)

MaxIndentDepth == 3
MaxIndentCapacity == 64

\* a number inside up to n containers, each of one child
RECURSIVE Chains(_)
Chains(n) ==
    IF n = 0 THEN {Number(Canonical(1, 0))}
    ELSE Chains(n - 1)
         \cup {Tree(cJSON_Array, Zero, <<>>, <<Element(v)>>) : v \in Chains(n - 1)}
         \cup {Tree(cJSON_Object, Zero, <<>>, <<Member(<<Ch.k>>, v)>>) :
                 v \in Chains(n - 1)}

\* and containers of two children, empty ones among them
Pairs ==
    LET One == Number(Canonical(1, 0))
        Both(kind, a, b) ==
            Tree(kind, Zero, <<>>,
                 IF kind = cJSON_Array THEN <<Element(a), Element(b)>>
                 ELSE <<Member(<<Ch.k>>, a), Member(<<Ch.K>>, b)>>)
        Empty(kind) == Tree(kind, Zero, <<>>, <<>>)
    IN {Both(kind, a, b) : kind \in {cJSON_Array, cJSON_Object},
                           a \in {One, Empty(cJSON_Array), Empty(cJSON_Object)},
                           b \in {One, Empty(cJSON_Object)}}
       \cup {Tree(cJSON_Array, Zero, <<>>, <<Element(Both(cJSON_Object, One, One))>>)}

IndentTrees == Chains(MaxIndentDepth) \cup Pairs

IndentInit ==
    /\ \E v \in IndentTrees, fuel \in 0..2 :
         /\ heap = [Plant(EmptyHeap, v).h EXCEPT !.fuel = fuel]
         /\ last = [op |-> "none", tree |-> Plant(EmptyHeap, v).p, format |-> FALSE,
                    ret |-> FALSE]
    /\ json = <<>>
    /\ global_error = NoError

\* cJSON_Print or cJSON_PrintUnformatted
IndentPrint ==
    /\ last.op = "none"
    /\ \E format \in BOOLEAN :
         LET Returned(r) ==
                 /\ heap' = r.h
                 /\ json' = IF r.printed = NULL THEN <<>> ELSE r.h.strs[r.printed]
                 /\ last' = [last EXCEPT !.op = "print", !.format = format,
                                         !.ret = r.printed # NULL]
         IN Returned(print(heap, last.tree, format))
    /\ UNCHANGED global_error

IndentPrintPreallocated ==
    /\ last.op = "none"
    /\ \E format \in BOOLEAN, length \in {MaxIndentCapacity \div 2, MaxIndentCapacity} :
         LET Returned(r) ==
                 /\ heap' = r.p.hooks
                 /\ json' = IF r.ret THEN CString(r.p.bytes) ELSE <<>>
                 /\ last' = [last EXCEPT !.op = "cJSON_PrintPreallocated",
                                         !.format = format, !.ret = r.ret]
         IN Returned(cJSON_PrintPreallocated(heap, last.tree, Input, length, format))
    /\ UNCHANGED global_error

NextIndent == IndentPrint \/ IndentPrintPreallocated

SpecIndent == IndentInit /\ [][NextIndent]_vars

---------------------------------------------------------------------------
(* Indentation *)

\* the indices of the text where the key of an object member begins
KeyStarts(text) ==
    {i \in 2..(Len(text) - 1) : /\ text[i] = Ch.quote
                                /\ text[i + 1] \in {Ch.k, Ch.K}
                                /\ text[i - 1] \in {Ch.tab, Ch.lf}}

\* the tabs that stand right before index i
RECURSIVE TabsBefore(_, _)
TabsBefore(text, i) ==
    IF i = 1 \/ text[i - 1] # Ch.tab THEN 0 ELSE 1 + TabsBefore(text, i - 1)

\* the containers of one kind that are open at index i
Enclosing(text, i, open, close) ==
    Cardinality({j \in 1..(i - 1) : text[j] = open})
    - Cardinality({j \in 1..(i - 1) : text[j] = close})

\* C23: the array printer does not change the print depth: in a formatted
\* print the tabs before each object member are as many as the objects that
\* enclose it, arrays adding none.
C23_TabsCountObjects ==
    (last.op # "none" /\ last.format /\ last.ret) =>
      \A i \in KeyStarts(json) :
        TabsBefore(json, i) = Enclosing(json, i, Ch.lbrace, Ch.rbrace)

\* C23, amended: the array printer raises the print depth as the object
\* printer does: the tabs before each object member are as many as the
\* containers, objects and arrays, that enclose it.
C23_TabsCountContainers ==
    (last.op # "none" /\ last.format /\ last.ret) =>
      \A i \in KeyStarts(json) :
        TabsBefore(json, i) = Enclosing(json, i, Ch.lbrace, Ch.rbrace)
                              + Enclosing(json, i, Ch.lbracket, Ch.rbracket)

\* {"k": [{"k": 1}]} was printed, the inner member behind three tabs
C23_Witness ==
    /\ last.op # "none" /\ last.format /\ last.ret
    /\ \E i \in KeyStarts(json) :
         /\ Enclosing(json, i, Ch.lbracket, Ch.rbracket) = 1
         /\ Enclosing(json, i, Ch.lbrace, Ch.rbrace) = 2
         /\ TabsBefore(json, i) = 3

---------------------------------------------------------------------------
(* The client of the reference containers.  It makes nodes, links them     *)
(* into containers, detaches them, makes a reference container over a node *)
(* and adds items to every container it has, the borrowing ones too.       *)

MaxBorrowCalls == 3

BorrowFactories == <<"cJSON_CreateNull", "cJSON_CreateArray", "cJSON_CreateObject">>

BorrowInit ==
    /\ heap \in {h \in Built(TreeHeap, BorrowFactories, 1, MaxNodes - 1) :
                   Len(h.nodes) = MaxNodes - 1}
    /\ last = [op |-> "none", ret |-> FALSE, left |-> MaxBorrowCalls, parent |-> NULL,
               item |-> NULL]
    /\ json = <<>>
    /\ global_error = NoError

BorrowDid(op, parent, item, ret) ==
    [op |-> op, ret |-> ret, left |-> last.left - 1, parent |-> parent, item |-> item]

\* every container of the kind, the owning and the borrowing
OfKind(kind) == {n \in heap.liveN : heap.nodes[n].type.kind = kind}

\* parent can take item: item is unlinked, not in the list of parent and
\* parent is not inside it
CanBorrow(parent, item) ==
    /\ CanTake(parent, item)
    /\ item \notin Range(ChildList(heap, parent))

BorrowCreateReference ==
    /\ CanCall
    /\ CanCreate
    /\ \E kind \in {cJSON_Array, cJSON_Object}, child \in heap.liveN :
         LET Returned(r) ==
                 /\ heap' = r.h
                 /\ last' = BorrowDid(IF kind = cJSON_Array
                                      THEN "cJSON_CreateArrayReference"
                                      ELSE "cJSON_CreateObjectReference",
                                      r.p, child, r.p # NULL)
         IN Returned(CreateContainerReference(heap, kind, child))
    /\ UNCHANGED <<json, global_error>>

BorrowAddItemToArray ==
    /\ CanCall
    /\ \E array \in OfKind(cJSON_Array), item \in heap.liveN :
         /\ CanBorrow(array, item)
         /\ LET Returned(r) ==
                    /\ heap' = r.h
                    /\ last' = BorrowDid("cJSON_AddItemToArray", array, item, r.ret)
            IN Returned(add_item_to_array(heap, array, item))
    /\ UNCHANGED <<json, global_error>>

BorrowAddItemToObject ==
    /\ CanCall
    /\ \E object \in OfKind(cJSON_Object), item \in heap.liveN, string \in NewKeys :
         /\ CanBorrow(object, item)
         /\ LET Returned(r) ==
                    /\ heap' = r.h
                    /\ last' = BorrowDid("cJSON_AddItemToObject", object, item, r.ret)
            IN Returned(add_item_to_object(heap, object, string, item, FALSE))
    /\ UNCHANGED <<json, global_error>>

BorrowDetachItemViaPointer ==
    /\ CanCall
    /\ \E parent \in Arrays \cup Objects :
         /\ Walkable(heap, parent)
         /\ \E item \in Range(ChildList(heap, parent)) :
              LET Returned(r) ==
                      /\ heap' = r.h
                      /\ last' = BorrowDid("cJSON_DetachItemViaPointer", parent, item,
                                           r.p # NULL)
              IN Returned(cJSON_DetachItemViaPointer(heap, parent, item))
    /\ UNCHANGED <<json, global_error>>

NextBorrow ==
    \/ BorrowCreateReference
    \/ BorrowAddItemToArray
    \/ BorrowAddItemToObject
    \/ BorrowDetachItemViaPointer

SpecBorrow == BorrowInit /\ [][NextBorrow]_vars

\* C25: whenever cJSON_AddItemToArray or cJSON_AddItemToObject returns true
\* the item is the last child of the parent: it is reached by following
\* next from parent->child and it is parent->child->prev; also when the
\* parent is a reference container over a node whose prev is null.
C25_AddedIsLast ==
    (last.op \in {"cJSON_AddItemToArray", "cJSON_AddItemToObject"} /\ last.ret) =>
      LET list == ChildList(heap, last.parent)
      IN /\ list # <<>>
         /\ list[Len(list)] = last.item
         /\ heap.nodes[heap.nodes[last.parent].child].prev = last.item

---------------------------------------------------------------------------
(* The client of the lookup.  It has an object whose children came from    *)
(* cJSON_AddItemToObject and from cJSON_AddItemToArray, and looks a name   *)
(* up in it.                                                               *)

MaxLookupKids == 3

\* k, K and a name without a letter
LookupNames == {<<Ch.k>>, <<Ch.K>>, <<Ch.zero + 1>>}

LookupObjects ==
    {Tree(cJSON_Object, Zero, <<>>, kids) :
        kids \in SeqsUpTo({Member(key, Leaf(cJSON_NULL)) : key \in LookupNames}
                          \cup {Element(Leaf(cJSON_NULL))}, MaxLookupKids)}

\* the names the client looks up are texts of its own
LookupHeap ==
    LET a == StaticString(EmptyHeap, <<Ch.k>>)
        b == StaticString(a.h, <<Ch.K>>)
        c == StaticString(b.h, <<Ch.zero + 1>>)
    IN c.h

LookupInit ==
    /\ \E v \in LookupObjects :
         /\ heap = Plant(LookupHeap, v).h
         /\ last = [op |-> "none", object |-> Plant(LookupHeap, v).p, name |-> NULL,
                    p |-> NULL]
    /\ json = <<>>
    /\ global_error = NoError

LookupGetObjectItem ==
    /\ \E string \in 1..Len(LookupHeap.strs) :
         last' = [last EXCEPT !.op = "cJSON_GetObjectItem", !.name = string,
                              !.p = cJSON_GetObjectItem(heap, last.object, string)]
    /\ UNCHANGED <<heap, json, global_error>>

LookupGetObjectItemCaseSensitive ==
    /\ \E string \in 1..Len(LookupHeap.strs) :
         last' = [last EXCEPT !.op = "cJSON_GetObjectItemCaseSensitive",
                              !.name = string,
                              !.p = cJSON_GetObjectItemCaseSensitive(heap, last.object,
                                                                      string)]
    /\ UNCHANGED <<heap, json, global_error>>

NextLookup == LookupGetObjectItem \/ LookupGetObjectItemCaseSensitive

SpecLookup == LookupInit /\ [][NextLookup]_vars

\* the places of the children of the object whose key has the bytes of the
\* name
Matches(h, object, name) ==
    {i \in 1..Len(ChildList(h, object)) :
        LET child == ChildList(h, object)[i]
        IN /\ h.nodes[child].string # NULL
           /\ h.strs[h.nodes[child].string] = h.strs[name]}

Least(S) == CHOOSE i \in S : \A j \in S : i <= j

\* C29: cJSON_GetObjectItemCaseSensitive returns the first child in sibling
\* order whose key is bytewise equal to the name, and null only if no
\* child has that key, also when an earlier child has no key; for a name
\* without ASCII letters the case-insensitive lookup returns the same.
C29_FirstEqualKey ==
    last.op = "cJSON_GetObjectItemCaseSensitive" =>
      LET found == Matches(heap, last.object, last.name)
      IN /\ last.p = IF found = {} THEN NULL
                     ELSE ChildList(heap, last.object)[Least(found)]
         /\ (\A i \in DOMAIN heap.strs[last.name] :
               heap.strs[last.name][i] \notin (Ch.a..Ch.z) \cup (Ch.A..Ch.Z))
            => last.p = cJSON_GetObjectItem(heap, last.object, last.name)

---------------------------------------------------------------------------
(* The client of the parser's steps.  It applies parse_value and           *)
(* buffer_skip_whitespace to a buffer of its own, with the cursor at any   *)
(* byte of it.                                                             *)

MaxStepLen == 4

StepAlphabet == {Ch.zero + 1, Ch.sp, Ch.lbracket, Ch.rbracket, Ch.comma}

\* {"":1, "":{}} and {"" :[1] ,"":1 }
StepObjects ==
    {<<Ch.lbrace, Ch.quote, Ch.quote, Ch.colon, Ch.zero + 1, Ch.comma, Ch.sp, Ch.quote,
       Ch.quote, Ch.colon, Ch.lbrace, Ch.rbrace, Ch.rbrace, Ch.sp>>,
     <<Ch.lbrace, Ch.quote, Ch.quote, Ch.sp, Ch.colon, Ch.lbracket, Ch.zero + 1,
       Ch.rbracket, Ch.sp, Ch.comma, Ch.quote, Ch.quote, Ch.colon, Ch.zero + 1, Ch.sp,
       Ch.rbrace>>}

StepTexts == (SeqsUpTo(StepAlphabet, MaxStepLen) \ {<<>>}) \cup StepObjects

StepInit ==
    /\ json \in StepTexts
    /\ heap = EmptyHeap
    /\ global_error = NoError
    /\ last = [op |-> "none", length |-> 0, from |-> 0, to |-> 0, ok |-> FALSE]

\* the buffer of the first length bytes of the text with the cursor at offset
StepBuffer(h, length, offset) ==
    [ZeroBuffer(h) EXCEPT !.content = json, !.length = length, !.offset = offset]

StepParseValue ==
    /\ last.op = "none"
    /\ \E length \in 1..Len(json) :
         \E offset \in 0..length :
           LET Valued(r) ==
                   /\ heap' = r.b.hooks
                   /\ last' = [op |-> "parse_value", length |-> length, from |-> offset,
                               to |-> r.b.offset, ok |-> r.ok]
               Made(new) == Valued(parse_value(new.p, StepBuffer(new.h, length, offset)))
           IN Made(cJSON_New_Item(heap))
    /\ UNCHANGED <<json, global_error>>

StepSkipWhitespace ==
    /\ last.op = "none"
    /\ \E length \in 1..Len(json) :
         \E offset \in 0..length :
           LET Skipped(b) ==
                   last' = [op |-> "buffer_skip_whitespace", length |-> length,
                            from |-> offset, to |-> b.offset, ok |-> TRUE]
           IN Skipped(buffer_skip_whitespace(StepBuffer(heap, length, offset)))
    /\ UNCHANGED <<heap, json, global_error>>

NextStep == StepParseValue \/ StepSkipWhitespace

SpecStep == StepInit /\ [][NextStep]_vars

\* the offsets from the cursor on, inside the buffer, of bytes that are
\* no white space
Solid == {o \in last.from..(last.length - 1) : json[o + 1] > Ch.sp}

\* C30: parsing ends on every buffer: a parse_value that succeeds moves the
\* cursor forward by at least one byte, every node it made (the value and
\* every element of every loop of parse_array and parse_object) has a byte
\* of its own among the bytes consumed, and buffer_skip_whitespace moves
\* the cursor forward to the first byte that is no white space; it steps
\* back by one byte only when white space fills the buffer to its end, and
\* then the cursor is on the last byte of it, which is no comma.
C30_ParseConsumes ==
    /\ (last.op = "parse_value" /\ last.ok) =>
         /\ last.to > last.from
         /\ last.to <= last.length
         /\ Cardinality(heap.liveN) <= last.to - last.from
    /\ last.op = "buffer_skip_whitespace" =>
         IF last.from = last.length THEN last.to = last.from
         ELSE IF Solid = {}
         THEN /\ last.to = last.length - 1
              /\ json[last.to + 1] # Ch.comma
         ELSE last.to = Least(Solid)

\* an object of two members was parsed from a cursor at its brace, one
\* member behind a comma and white space
C30_Witness ==
    /\ last.op = "parse_value"
    /\ last.ok
    /\ json[last.from + 1] = Ch.lbrace
    /\ Cardinality(heap.liveN) >= 3
    /\ last.to - last.from > Cardinality(heap.liveN)

====
